---- MODULE Spec2Model ----
(***************************************************************************)
(* A model of the virtio-scsi device backend of crosvm                     *)
(* (devices/src/virtio/scsi/device.rs): the sense/response codec, the LUN  *)
(* addressing rule, the processing of one descriptor chain, the queue      *)
(* worker that fans the chains out as cooperative tasks, the device's      *)
(* activation, the worker's end and the configuration space.               *)
(***************************************************************************)
EXTENDS Integers, Sequences, FiniteSets, TLC

VARIABLES
    mode,        \* which part of the program runs: "worker", "single", "after",
                 \* "fair", "stuck", "life", "read", "lun", "codec", "sense", "config",
                 \* "proxy", "psci", "queues"
    host_le,     \* the byte order of the build target (TRUE: little endian)
    target,      \* the LogicalUnit behind Arc<RwLock<..>>
    avail,       \* the request queue's available ring: chain ids not yet popped
    chains,      \* every descriptor chain submitted so far, by id
    evt,         \* the request queue's kick event is signalled
    tasks,       \* background_tasks: the chain each unfinished task holds, in push order
    terminated,  \* FuturesUnordered::is_terminated of background_tasks
    used,        \* the used ring: <<chain id, len>> in add_used order
    interrupts,  \* number of trigger_interrupt calls
    device,      \* the Device's own fields
    worker,      \* the worker thread's run_worker: its state, and how it returned
    kill_evt,    \* the worker thread's kill event is signalled
    arg,         \* input of the pure function under check
    res,         \* its result: <<>> before the call, <<value>> after
    proxy,       \* a ProxyDevice, its child process and the socket pair between them
    queues       \* the queues given to activate: their indices, the rings of the
                 \* control and event queues, the RefCell holding the request queue

workerVars == <<target, avail, chains, evt, tasks, terminated, used, interrupts>>
lifeVars == <<device, worker, kill_evt>>
vars == <<mode, host_le, target, avail, chains, evt, tasks, terminated, used, interrupts,
          device, worker, kill_evt, arg, res, proxy, queues>>

----------------------------------------------------------------------------
(* Program constants *)

GOOD == 0
CHECK_CONDITION == 2
MEDIUM_ERROR == 3
ILLEGAL_REQUEST == 5

TEST_UNIT_READY == 0
REQUEST_SENSE == 3
READ_6 == 8
INQUIRY == 18
READ_CAPACITY_10 == 37
READ_10 == 40
WRITE_10 == 42
REPORT_LUNS == 160

VIRTIO_SCSI_S_OK == 0
VIRTIO_SCSI_S_BAD_TARGET == 3
VIRTIO_SCSI_SENSE_DEFAULT_SIZE == 96
VIRTIO_SCSI_CDB_DEFAULT_SIZE == 32
\* size_of::<virtio_scsi_event>()
VIRTIO_SCSI_EVENT_SIZE == 16

MINIMUM_NUM_QUEUES == 3
DEFAULT_MAX_CHANNEL == 0
DEFAULT_MAX_TARGET == 255
DEFAULT_MAX_LUN == 16383
DEFAULT_QUEUE_SIZE == 256
MAX_CMD_PER_LUN == 128
MAX_SECTORS == 65535

----------------------------------------------------------------------------
(* Byte-level helpers: the layout of a #[repr(C)] struct seen through      *)
(* zerocopy's AsBytes is the native encoding of each field.                 *)

Zeros(n) == [i \in 1..n |-> 0]

Reverse(w) == [i \in 1..Len(w) |-> w[Len(w) + 1 - i]]

\* An unsigned integer of n bytes is held as its n base-256 digits, the most
\* significant first, so that u32 and usize keep their full width.
RECURSIVE Word(_, _)
Word(x, n) == IF n = 0 THEN <<>> ELSE Append(Word(x \div 256, n - 1), x % 256)

\* the in-memory bytes of an integer field on the build target
NativeBytes(w, le) == IF le THEN Reverse(w) ELSE w

\* u32::to_be: the u32 whose in-memory bytes are w's big-endian bytes
to_be_noswap(w, le) == w
to_be(w, le) == IF le THEN Reverse(w) ELSE w

\* u32::MAX
U32_MAX == <<255, 255, 255, 255>>

\* usize (8 bytes) -> u32 via try_into().unwrap_or(u32::MAX)
try_into_u32_wrapping(u) == SubSeq(u, 5, 8)
try_into_u32(u) == IF SubSeq(u, 1, 4) = Zeros(4) THEN SubSeq(u, 5, 8) ELSE U32_MAX

----------------------------------------------------------------------------
(* ExecuteError, Sense and the response codec *)

ErrorTags == {"InvalidField", "LbaOutOfRange", "Read", "ReadCommand", "ReadIo",
              "ReadOnly", "Unsupported", "Write", "WriteIo"}

\* One shape for every variant; the fields a variant does not carry are 0.
ExecuteError(tag, resid, opcode, length, sector, max_lba) ==
    [tag |-> tag, resid |-> resid, opcode |-> opcode,
     length |-> length, sector |-> sector, max_lba |-> max_lba]

Err(tag) == ExecuteError(tag, Word(0, 8), 0, 0, 0, 0)

virtio_scsi_cmd_resp_ok ==
    [sense_len |-> 0, resid |-> Word(0, 4), status_qualifier |-> 0, status |-> GOOD,
     response |-> VIRTIO_SCSI_S_OK, sense |-> Zeros(VIRTIO_SCSI_SENSE_DEFAULT_SIZE)]

\* virtio_scsi_cmd_resp::default(): every field zero
virtio_scsi_cmd_resp_default ==
    [sense_len |-> 0, resid |-> Word(0, 4), status_qualifier |-> 0, status |-> 0,
     response |-> 0, sense |-> Zeros(VIRTIO_SCSI_SENSE_DEFAULT_SIZE)]

\* Sense::as_bytes: (sense bytes, actual size); sense_data[i] is data[i + 1] here
Sense_as_bytes_descriptor(s, fixed) ==
    [data |-> [i \in 1..VIRTIO_SCSI_SENSE_DEFAULT_SIZE |->
                  CASE i = 1 -> 114 [] i = 2 -> s.key [] i = 3 -> s.asc
                    [] i = 4 -> s.ascq [] OTHER -> 0],
     len |-> 8]
Sense_as_bytes_shifted(s, fixed) ==
    [data |-> [i \in 1..VIRTIO_SCSI_SENSE_DEFAULT_SIZE |->
                  CASE i = 1 -> 112 [] i = 3 -> s.key [] i = 8 -> 10
                    [] i = 13 -> s.ascq [] i = 14 -> s.asc [] OTHER -> 0],
     len |-> 18]
Sense_as_bytes_no_additional_length(s, fixed) ==
    IF fixed
    THEN [data |-> [i \in 1..VIRTIO_SCSI_SENSE_DEFAULT_SIZE |->
                      CASE i = 1 -> 112 [] i = 3 -> s.key
                        [] i = 13 -> s.asc [] i = 14 -> s.ascq [] OTHER -> 0],
          len |-> 18]
    ELSE [data |-> [i \in 1..VIRTIO_SCSI_SENSE_DEFAULT_SIZE |->
                      CASE i = 1 -> 114 [] i = 2 -> s.key [] i = 3 -> s.asc
                        [] i = 4 -> s.ascq [] i = 8 -> 10 [] OTHER -> 0],
          len |-> 8]
Sense_as_bytes(s, fixed) ==
    IF fixed
    THEN [data |-> [i \in 1..VIRTIO_SCSI_SENSE_DEFAULT_SIZE |->
                      CASE i = 1 -> 112 [] i = 3 -> s.key [] i = 8 -> 10
                        [] i = 13 -> s.asc [] i = 14 -> s.ascq [] OTHER -> 0],
          len |-> 18]
    ELSE [data |-> [i \in 1..VIRTIO_SCSI_SENSE_DEFAULT_SIZE |->
                      CASE i = 1 -> 114 [] i = 2 -> s.key [] i = 3 -> s.asc
                        [] i = 4 -> s.ascq [] OTHER -> 0],
          len |-> 8]

\* the match of as_resp: the sense of each variant that carries one
SenseOf_by_opcode(e) ==
    CASE e.tag \in {"Read", "ReadCommand"} -> [key |-> MEDIUM_ERROR, asc |-> 17, ascq |-> 0]
      [] e.tag = "Write" -> [key |-> MEDIUM_ERROR, asc |-> 12, ascq |-> 0]
      [] e.tag = "InvalidField" -> [key |-> ILLEGAL_REQUEST, asc |-> 36, ascq |-> 0]
      [] e.tag = "Unsupported" -> [key |-> ILLEGAL_REQUEST, asc |-> 32, ascq |-> e.opcode % 2]
      [] e.tag \in {"ReadOnly", "LbaOutOfRange"} ->
            [key |-> ILLEGAL_REQUEST, asc |-> 33, ascq |-> 0]
SenseOf(e) ==
    CASE e.tag \in {"Read", "ReadCommand"} -> [key |-> MEDIUM_ERROR, asc |-> 17, ascq |-> 0]
      [] e.tag = "Write" -> [key |-> MEDIUM_ERROR, asc |-> 12, ascq |-> 0]
      [] e.tag = "InvalidField" -> [key |-> ILLEGAL_REQUEST, asc |-> 36, ascq |-> 0]
      [] e.tag = "Unsupported" -> [key |-> ILLEGAL_REQUEST, asc |-> 32, ascq |-> 0]
      [] e.tag \in {"ReadOnly", "LbaOutOfRange"} ->
            [key |-> ILLEGAL_REQUEST, asc |-> 33, ascq |-> 0]

\* ExecuteError::as_resp
as_resp(e, le) ==
    IF e.tag \in {"ReadIo", "WriteIo"}
    THEN [virtio_scsi_cmd_resp_ok EXCEPT !.resid = to_be(try_into_u32(e.resid), le)]
    ELSE LET b == Sense_as_bytes(SenseOf(e), TRUE) IN
         [virtio_scsi_cmd_resp_ok EXCEPT !.sense_len = b.len, !.sense = b.data,
                                         !.status = CHECK_CONDITION]

\* resp.as_bytes(): the struct's bytes as they go on the wire
RespBytes(r, le) ==
    NativeBytes(Word(r.sense_len, 4), le) \o NativeBytes(r.resid, le)
      \o NativeBytes(Word(r.status_qualifier, 2), le) \o <<r.status, r.response>> \o r.sense

\* size_of::<virtio_scsi_cmd_resp>()
RespSize == 12 + VIRTIO_SCSI_SENSE_DEFAULT_SIZE

----------------------------------------------------------------------------
(* LUN addressing; lun[0] of the code is lun[1] here *)

is_lun0_any_bus(lun) == lun[1] = 1
is_lun0(lun) ==
    IF lun[1] # 1 THEN FALSE
    ELSE LET bus_id == lun[2] IN bus_id = 0

----------------------------------------------------------------------------
(* Bounds of the model *)

MaxChains == 3        \* chains the guest submits in worker mode
DiskLen == 4          \* disk_image.get_len()
BlockSize == 2        \* block_size given to Device::new
MaxReqLba == 5        \* largest starting LBA a request names
MaxReqLen == 2        \* largest transfer length a request names
ShortWritable == 9    \* a device-writable size too small for a response
MaxLifeChains == 2    \* chains the guest submits over the device's lifetime
MaxActivate == 2      \* calls of Device::activate
SockCap == 2          \* messages the parent's socket holds before a send fails
MaxSockFailures == 2  \* failed socket operations of the parent
MaxPsciMajor == 5     \* largest major number of a PSCI version drawn
MaxPsciMinor == 9     \* largest minor number of a PSCI version drawn
MaxOtherChains == 1   \* chains the guest puts on the control and on the event queue

----------------------------------------------------------------------------
(* Requests: what the guest puts in a descriptor chain *)

Supported == {TEST_UNIT_READY, REQUEST_SENSE, READ_6, INQUIRY, READ_CAPACITY_10,
              READ_10, WRITE_10, REPORT_LUNS}
ReadWriteOps == {READ_6, READ_10, WRITE_10}
OpSamples == Supported \cup {1, 255}

Lun(b0, b1, b7) == <<b0, b1, 0, 0, 0, 0, 0, b7>>
LunSamples == {Lun(1, 0, 0), Lun(1, 1, 0), Lun(0, 0, 0), Lun(1, 0, 9)}

\* room for the largest payload of the model behind the response header
DataRoom == MaxReqLen * BlockSize + 36
WritableSizes == {0, ShortWritable, RespSize + DataRoom}

Cdb(op, form, lba, len) == [op |-> op, form |-> form, lba |-> lba, len |-> len]
CdbForms == {"ok", "invalid", "truncated"}
Cdbs ==
    {Cdb(op, "ok", l, n) : op \in ReadWriteOps, l \in 0..MaxReqLba, n \in 0..MaxReqLen}
      \cup {Cdb(op, f, 0, 0) : op \in OpSamples, f \in CdbForms}

\* hdr: the readable part holds a whole virtio_scsi_cmd_req
Request(hdr, lun, cdb, wsize) == [hdr |-> hdr, lun |-> lun, cdb |-> cdb, wsize |-> wsize]
Requests ==
    {Request(FALSE, Lun(0, 0, 0), Cdb(0, "ok", 0, 0), w) : w \in WritableSizes}
      \cup {Request(TRUE, l, c, w) : l \in LunSamples, c \in Cdbs, w \in WritableSizes}

\* the requests of worker mode: one that suspends on a storage read, one that
\* completes at once, one whose header cannot be read and whose response fails
WorkerRequests ==
    {Request(TRUE, Lun(1, 0, 0), Cdb(READ_10, "ok", 0, 1), RespSize + DataRoom),
     Request(TRUE, Lun(1, 0, 0), Cdb(TEST_UNIT_READY, "ok", 0, 0), RespSize + DataRoom),
     Request(FALSE, Lun(0, 0, 0), Cdb(0, "ok", 0, 0), ShortWritable)}

\* one request for each kind of per-request failure: a CDB that does not decode,
\* a range that fails validation, a storage read that may fail, a header that
\* cannot be read, a response region too small for the response
FailingRequests ==
    {Request(TRUE, Lun(1, 0, 0), Cdb(255, "ok", 0, 0), RespSize + DataRoom),
     Request(TRUE, Lun(1, 0, 0), Cdb(READ_10, "ok", MaxReqLba, MaxReqLen), RespSize + DataRoom),
     Request(TRUE, Lun(1, 0, 0), Cdb(READ_10, "ok", 0, 1), RespSize + DataRoom),
     Request(FALSE, Lun(1, 0, 0), Cdb(0, "ok", 0, 0), RespSize + DataRoom),
     Request(TRUE, Lun(1, 0, 0), Cdb(TEST_UNIT_READY, "ok", 0, 0), ShortWritable)}

\* the requests over the device's lifetime: one that suspends, one that does not
LifeRequests ==
    {Request(TRUE, Lun(1, 0, 0), Cdb(READ_10, "ok", 0, 1), RespSize + DataRoom),
     Request(TRUE, Lun(1, 0, 0), Cdb(TEST_UNIT_READY, "ok", 0, 0), RespSize + DataRoom)}

----------------------------------------------------------------------------
(* Command decoding and execution (crate::virtio::scsi::commands) *)

NoCmd == [op |-> 0, lba |-> 0, len |-> 0]

\* Command::new
Command_new(cdb) ==
    IF cdb.op \notin Supported
    THEN [ok |-> FALSE, cmd |-> NoCmd, err |-> ExecuteError("Unsupported", Word(0, 8), cdb.op, 0, 0, 0)]
    ELSE IF cdb.form = "truncated"
    THEN [ok |-> FALSE, cmd |-> NoCmd, err |-> Err("ReadCommand")]
    ELSE IF cdb.form = "invalid"
    THEN [ok |-> FALSE, cmd |-> NoCmd, err |-> Err("InvalidField")]
    ELSE [ok |-> TRUE, cmd |-> [op |-> cdb.op, lba |-> cdb.lba, len |-> cdb.len],
          err |-> Err("InvalidField")]

\* bytes of the fixed payload a command without storage I/O writes
PayloadLen(op) ==
    CASE op = REQUEST_SENSE -> 18 [] op = INQUIRY -> 36 [] op = READ_CAPACITY_10 -> 8
      [] op = REPORT_LUNS -> 16 [] OTHER -> 0

\* the bytes of the backing store; each position holds a value of its own
DiskImage == [i \in 1..DiskLen |-> i]

NoIo == [kind |-> "none", offset |-> 0, bytes |-> 0, done |-> FALSE, ok |-> FALSE, resid |-> 0]

\* Command::execute up to its suspension point: a result, or a storage request
Command_execute_range_by_last_block(cmd, lu) ==
    LET oor == ExecuteError("LbaOutOfRange", Word(0, 8), 0, cmd.len, cmd.lba, lu.max_lba)
        io(kind) == [k |-> "io", err |-> Err("Read"), dlen |-> 0, data |-> <<>>,
                     io |-> [NoIo EXCEPT !.kind = kind, !.offset = cmd.lba * lu.block_size,
                                         !.bytes = cmd.len * lu.block_size]]
        fail(e) == [k |-> "err", err |-> e, dlen |-> 0, data |-> <<>>, io |-> NoIo]
    IN  CASE cmd.op \in {READ_6, READ_10} ->
                IF cmd.lba + cmd.len - 1 > lu.max_lba THEN fail(oor) ELSE io("read")
          [] cmd.op = WRITE_10 ->
                IF lu.read_only THEN fail(Err("ReadOnly"))
                ELSE IF cmd.lba + cmd.len - 1 > lu.max_lba THEN fail(oor) ELSE io("write")
          [] OTHER -> [k |-> "ok", err |-> Err("Read"), dlen |-> PayloadLen(cmd.op),
                       data |-> <<>>, io |-> NoIo]
Command_execute_range_first(cmd, lu) ==
    LET oor == ExecuteError("LbaOutOfRange", Word(0, 8), 0, cmd.len, cmd.lba, lu.max_lba)
        io(kind) == [k |-> "io", err |-> Err("Read"), dlen |-> 0, data |-> <<>>,
                     io |-> [NoIo EXCEPT !.kind = kind, !.offset = cmd.lba * lu.block_size,
                                         !.bytes = cmd.len * lu.block_size]]
        fail(e) == [k |-> "err", err |-> e, dlen |-> 0, data |-> <<>>, io |-> NoIo]
    IN  CASE cmd.op \in {READ_6, READ_10} ->
                IF cmd.lba + cmd.len > lu.max_lba THEN fail(oor) ELSE io("read")
          [] cmd.op = WRITE_10 ->
                IF cmd.lba + cmd.len > lu.max_lba THEN fail(oor)
                ELSE IF lu.read_only THEN fail(Err("ReadOnly")) ELSE io("write")
          [] OTHER -> [k |-> "ok", err |-> Err("Read"), dlen |-> PayloadLen(cmd.op),
                       data |-> <<>>, io |-> NoIo]
Command_execute(cmd, lu) ==
    LET oor == ExecuteError("LbaOutOfRange", Word(0, 8), 0, cmd.len, cmd.lba, lu.max_lba)
        io(kind) == [k |-> "io", err |-> Err("Read"), dlen |-> 0, data |-> <<>>,
                     io |-> [NoIo EXCEPT !.kind = kind, !.offset = cmd.lba * lu.block_size,
                                         !.bytes = cmd.len * lu.block_size]]
        fail(e) == [k |-> "err", err |-> e, dlen |-> 0, data |-> <<>>, io |-> NoIo]
    IN  CASE cmd.op \in {READ_6, READ_10} ->
                IF cmd.lba + cmd.len > lu.max_lba THEN fail(oor) ELSE io("read")
          [] cmd.op = WRITE_10 ->
                IF lu.read_only THEN fail(Err("ReadOnly"))
                ELSE IF cmd.lba + cmd.len > lu.max_lba THEN fail(oor) ELSE io("write")
          [] OTHER -> [k |-> "ok", err |-> Err("Read"), dlen |-> PayloadLen(cmd.op),
                       data |-> <<>>, io |-> NoIo]

\* Command::execute after the storage request completed; data is what a read
\* copied from the backing store into the payload region
Command_resume_from_start(io) ==
    IF io.ok
    THEN [k |-> "ok", err |-> Err("Read"),
          dlen |-> IF io.kind = "read" THEN io.bytes ELSE 0,
          data |-> IF io.kind = "read" THEN SubSeq(DiskImage, 1, io.bytes) ELSE <<>>,
          io |-> NoIo]
    ELSE [k |-> "err", dlen |-> 0, data |-> <<>>, io |-> NoIo,
          err |-> ExecuteError(IF io.kind = "read" THEN "ReadIo" ELSE "WriteIo",
                               Word(io.resid, 8), 0, 0, 0, 0)]
Command_resume(io) ==
    IF io.ok
    THEN [k |-> "ok", err |-> Err("Read"),
          dlen |-> IF io.kind = "read" THEN io.bytes ELSE 0,
          data |-> IF io.kind = "read"
                   THEN SubSeq(DiskImage, io.offset + 1, io.offset + io.bytes) ELSE <<>>,
          io |-> NoIo]
    ELSE [k |-> "err", dlen |-> 0, data |-> <<>>, io |-> NoIo,
          err |-> ExecuteError(IF io.kind = "read" THEN "ReadIo" ELSE "WriteIo",
                               Word(io.resid, 8), 0, 0, 0, 0)]

\* the LogicalUnit once Command::execute has dropped its lock on it: the command
\* holds dev.read() and stores nothing through the guard
LogicalUnit_after_execute_write_locked(lu) == [lu EXCEPT !.max_lba = 0]
LogicalUnit_after_execute(lu) == lu

\* the ways a storage request of n bytes completes
IoOutcomes(n) == {[ok |-> TRUE, resid |-> 0]} \cup {[ok |-> FALSE, resid |-> r] : r \in {0, n}}

----------------------------------------------------------------------------
(* One descriptor chain.  A chain record holds the request, the bytes the  *)
(* device wrote to the response region (out), the bytes written to the     *)
(* payload region (dlen; disk_data for those a read copied from storage),  *)
(* every response handed to write_all (writes), the                        *)
(* storage request it issued (io) and the order of the steps taken (log).   *)

NewChain(req) ==
    [req |-> req, pc |-> "avail", log |-> <<>>, out |-> <<>>, dlen |-> 0,
     disk_data |-> <<>>, writes |-> <<>>, io |-> NoIo]

Min(a, b) == IF a <= b THEN a ELSE b

Logged(ch, step) == [ch EXCEPT !.log = Append(@, step)]

\* resp_writer after split_at(size_of::<virtio_scsi_cmd_resp>()): the first
\* RespSize writable bytes of the chain, or fewer when the chain is shorter
RespCap(req) == Min(req.wsize, RespSize)

\* data_writer = resp_writer.split_at(size_of::<virtio_scsi_cmd_resp>()): the
\* writable bytes behind the response header
DataCap(req) == req.wsize - RespCap(req)

\* Command::execute writing through data_writer: a payload that does not fit
\* is written as far as there is room; a fixed payload then fails as Write, a
\* storage read as ReadIo with the bytes not transferred as its residual
Command_execute_unbounded(r, room) == r
Command_execute_into(r, room) ==
    CASE r.k = "ok" /\ r.dlen > room ->
            [k |-> "err", err |-> Err("Write"), dlen |-> room, data |-> <<>>, io |-> NoIo]
      [] r.k = "io" /\ r.io.kind = "read" /\ r.io.bytes > room ->
            [k |-> "err", dlen |-> room, data |-> <<>>, io |-> NoIo,
             err |-> ExecuteError("ReadIo", Word(r.io.bytes - room, 8), 0, 0, 0, 0)]
      [] OTHER -> r

\* resp_writer.write_all(resp.as_bytes()): bytes are copied while room
\* remains; the call fails when not all of them fit
write_all(ch, resp, le) ==
    LET bytes == RespBytes(resp, le)
        n == Min(RespCap(ch.req) - Len(ch.out), Len(bytes))
    IN  [ch |-> [Logged(ch, "write_resp") EXCEPT !.out = @ \o SubSeq(bytes, 1, n),
                                                 !.writes = Append(@, resp)],
         ok |-> n = Len(bytes)]

\* process_one_request, the branch taken when execute_request returned Err(err)
on_execute_error_as_write(ch, err, le) == write_all(ch, as_resp(Err("Write"), le), le).ch
on_execute_error(ch, err, le) == write_all(ch, as_resp(err, le), le).ch

\* execute_request from the response write on: Ok(bytes_written), or
\* Err(Write) handed to process_one_request
respond_twice(ch, resp, le) ==
    write_all(write_all(ch, resp, le).ch, resp, le).ch
respond(ch, resp, le) ==
    LET w == write_all(ch, resp, le)
    IN  IF w.ok THEN w.ch ELSE on_execute_error(w.ch, Err("Write"), le)

\* the response execute_request builds for the result of Command::execute
resp_of_result_from_default(r, le) ==
    IF r.k = "ok"
    THEN [virtio_scsi_cmd_resp_default EXCEPT !.response = VIRTIO_SCSI_S_BAD_TARGET]
    ELSE as_resp(r.err, le)
resp_of_result(r, le) ==
    IF r.k = "ok"
    THEN [sense_len |-> 0, resid |-> Word(0, 4), status_qualifier |-> 0, status |-> GOOD,
          response |-> VIRTIO_SCSI_S_OK, sense |-> Zeros(VIRTIO_SCSI_SENSE_DEFAULT_SIZE)]
    ELSE as_resp(r.err, le)

bad_target_resp ==
    [virtio_scsi_cmd_resp_default EXCEPT !.response = VIRTIO_SCSI_S_BAD_TARGET]

\* execute_request once Command::execute has returned r
after_execute(ch, r, le) ==
    respond([Logged(ch, IF r.k = "ok" THEN "execute_ok" ELSE "execute_err")
                EXCEPT !.dlen = r.dlen, !.disk_data = r.data, !.pc = "responded"],
            resp_of_result(r, le), le)

\* execute_request's branch for LUN 0: decode the CDB, then execute the command
decode_and_execute_any_cdb(l, lu, le) ==
    LET e == Logged(Logged(l, "decode"), "execute")
        r == Command_execute_into(Command_execute(Command_new(l.req.cdb).cmd, lu), DataCap(l.req))
    IN  IF r.k = "io"
        THEN [e EXCEPT !.pc = "io", !.io = r.io]
        ELSE after_execute(e, r, le)
decode_and_execute(l, lu, le) ==
    LET c == Logged(l, "decode")
        d == Command_new(l.req.cdb)
    IN  IF ~d.ok
        THEN on_execute_error([c EXCEPT !.pc = "responded"], d.err, le)
        ELSE LET e == Logged(c, "execute")
                 r == Command_execute_into(Command_execute(d.cmd, lu), DataCap(l.req))
             IN  IF r.k = "io"
                 THEN [e EXCEPT !.pc = "io", !.io = r.io]
                 ELSE after_execute(e, r, le)

\* process_one_request from its start to the first suspension or to its end
process_one_request_no_lun_check(ch, lu, le) ==
    LET h == Logged(ch, "read_hdr") IN
    IF ~ch.req.hdr
    THEN on_execute_error([h EXCEPT !.pc = "responded"], Err("Read"), le)
    ELSE decode_and_execute(Logged(h, "is_lun0"), lu, le)
process_one_request(ch, lu, le) ==
    LET h == Logged(ch, "read_hdr") IN
    IF ~ch.req.hdr
    THEN on_execute_error([h EXCEPT !.pc = "responded"], Err("Read"), le)
    ELSE LET l == Logged(h, "is_lun0") IN
         IF ~is_lun0(ch.req.lun)
         THEN respond([l EXCEPT !.pc = "responded"], bad_target_resp, le)
         ELSE decode_and_execute(l, lu, le)

\* process_one_request resumed when its storage request has completed
process_one_request_resume(ch, le) == after_execute(ch, Command_resume(ch.io), le)

\* the RefCell around the shared queue: borrow_mut panics while a RefMut is
\* alive; dropping the RefMut ends the borrow
RefCell_new == [borrowed |-> FALSE, panicked |-> FALSE]
RefCell_borrow_mut(cell) ==
    IF cell.borrowed THEN [cell EXCEPT !.panicked = TRUE] ELSE [cell EXCEPT !.borrowed = TRUE]
RefCell_drop(cell) == [cell EXCEPT !.borrowed = FALSE]

\* Queue::add_used and Queue::trigger_interrupt on the shared queue
add_used(q, c, len) == [q EXCEPT !.used = Append(@, <<c, len>>)]
trigger_interrupt(q) == [q EXCEPT !.interrupts = @ + 1]

\* process_one_chain after process_one_request returned; q is the shared queue
\* (len as u32 does not truncate: a chain's writable size is far below 2^32)
process_one_chain_interrupt_first(ch, q, c) ==
    LET len == Len(ch.out) + ch.dlen IN
    [ch |-> [Logged(Logged(ch, "interrupt"), "add_used") EXCEPT !.pc = "done"],
     q |-> add_used(trigger_interrupt(q), c, len)]
process_one_chain_leaks_unanswered(ch, q, c) ==
    LET len == Len(ch.out) + ch.dlen IN
    IF Len(ch.out) < RespSize
    THEN [ch |-> [ch EXCEPT !.pc = "done"], q |-> q]
    ELSE [ch |-> [Logged(Logged(ch, "add_used"), "interrupt") EXCEPT !.pc = "done"],
          q |-> trigger_interrupt(add_used(q, c, len))]
process_one_chain(ch, q, c) ==
    LET len == Len(ch.out) + ch.dlen
        queue == [q EXCEPT !.cell = RefCell_borrow_mut(@)]
    IN  [ch |-> [Logged(Logged(ch, "add_used"), "interrupt") EXCEPT !.pc = "done"],
         q |-> [trigger_interrupt(add_used(queue, c, len)) EXCEPT !.cell = RefCell_drop(@)]]

\* process_one_chain suspended in process_one_request(..).await: the RefMut it
\* holds at that point (none: borrow_mut comes after the await)
process_one_chain_suspended_borrowing(cell) == RefCell_borrow_mut(cell)
process_one_chain_suspended(cell) == cell

----------------------------------------------------------------------------
(* ProxyDevice (devices/src/proxy.rs): a BusDevice run in a child process.   *)
(* A proxy record holds the parent's position (pc), the command sync_send     *)
(* waits on (cmd), the result of the call that returned last (ret), the two   *)
(* directions of the socket pair, the child's loop flag, the device the child *)
(* owns, the number of socket operations of the parent that failed,          *)
(* unproxied: a device of the same kind given the same calls directly, and    *)
(* send_errors: the number of sends of the child that failed.                 *)

\* the EchoDevice of the tests
EchoDevice_new == [data |-> 0, config |-> 0]
EchoDevice_write(d, data) == [d EXCEPT !.data = data[1]]
EchoDevice_read(d, data) == [data EXCEPT ![1] = d.data]
EchoDevice_config_register_write(d, reg_idx, offset, data) == [d EXCEPT !.config = data[1]]
EchoDevice_config_register_read(d, reg_idx) == d.config

\* buffer[0..data.len()].clone_from_slice(data) on a zeroed buffer of n bytes
Buffered(data, n) == data \o Zeros(n - Len(data))

NoRet == [kind |-> "none", data |-> <<>>, val |-> 0]
NoCommand == [tag |-> "none"]

NoProxy ==
    [pc |-> "none", cmd |-> NoCommand, ret |-> NoRet, to_child |-> <<>>, to_parent |-> <<>>,
     running |-> FALSE, device |-> EchoDevice_new, failures |-> 0, unproxied |-> EchoDevice_new,
     send_errors |-> 0]

\* ProxyDevice::new: the child runs child_proc on the device, the parent holds
\* the other end of the socket pair
ProxyDevice_new(dev) ==
    [NoProxy EXCEPT !.pc = "idle", !.running = TRUE, !.device = dev, !.unproxied = dev]

\* ProxyDevice::send_no_result: the message is queued, or the send fails once
\* the socket is full for the length of the write timeout
send_no_result(p, cmd) ==
    IF Len(p.to_child) < SockCap
    THEN [p EXCEPT !.to_child = Append(@, cmd)]
    ELSE [p EXCEPT !.failures = @ + 1]

\* ProxyDevice::sync_send up to its sock.recv()
sync_send(p, cmd) == [send_no_result(p, cmd) EXCEPT !.pc = "recv", !.cmd = cmd, !.ret = NoRet]

\* ProxyDevice::write
ProxyDevice_write(p, info, data) ==
    [send_no_result(p, [tag |-> "Write", len |-> Len(data), info |-> info,
                        data |-> Buffered(data, 8)])
        EXCEPT !.ret = NoRet]

\* ProxyDevice::config_register_write
ProxyDevice_config_register_write(p, reg_idx, offset, data) ==
    [send_no_result(p, [tag |-> "WriteConfig", reg_idx |-> reg_idx, offset |-> offset,
                        len |-> Len(data), data |-> Buffered(data, 4)])
        EXCEPT !.ret = NoRet]

\* ProxyDevice::read from the answer of sync_send on: r is Some(result) as
\* <<result>> or None as <<>>, data the caller's buffer
ProxyDevice_read_clears_buffer(p, r, data) ==
    [p EXCEPT !.pc = "idle",
              !.ret = [kind |-> "read", val |-> 0,
                       data |-> IF r # <<>> /\ r[1].tag = "ReadResult"
                                THEN SubSeq(r[1].buffer, 1, Len(data)) ELSE Zeros(Len(data))]]
ProxyDevice_read_keeps_buffer(p, r, data) ==
    [p EXCEPT !.pc = "idle", !.ret = [kind |-> "read", val |-> 0, data |-> data]]
ProxyDevice_read(p, r, data) ==
    [p EXCEPT !.pc = "idle",
              !.ret = [kind |-> "read", val |-> 0,
                       data |-> IF r # <<>> /\ r[1].tag = "ReadResult"
                                THEN SubSeq(r[1].buffer, 1, Len(data)) ELSE data]]

\* ProxyDevice::config_register_read from the answer of sync_send on
ProxyDevice_config_register_read_zero(p, r) ==
    [p EXCEPT !.pc = "idle", !.ret = [kind |-> "config", data |-> <<>>, val |-> 0]]
ProxyDevice_config_register_read(p, r) ==
    [p EXCEPT !.pc = "idle",
              !.ret = [kind |-> "config", data |-> <<>>,
                       val |-> IF r # <<>> /\ r[1].tag = "ReadConfigResult"
                               THEN r[1].val ELSE 0]]

\* Drop for ProxyDevice from the answer of sync_send(Shutdown) on
ProxyDevice_drop(p, r) == [p EXCEPT !.pc = "dropped"]

\* the buffer the caller of read passes in: bytes no device of the model returns
CallerBuffer(len) == [i \in 1..len |-> 255]

\* the call of the parent that sync_send returns into
sync_send_return(p, r) ==
    CASE p.cmd.tag = "Read" -> ProxyDevice_read(p, r, CallerBuffer(p.cmd.len))
      [] p.cmd.tag = "ReadConfig" -> ProxyDevice_config_register_read(p, r)
      [] p.cmd.tag = "Shutdown" -> ProxyDevice_drop(p, r)

\* sock.send(result) in child_proc: it fails once the parent has closed its
\* end; the error is logged and the loop goes on
child_send_fatal(p, msg) ==
    IF p.pc = "dropped"
    THEN [p EXCEPT !.send_errors = @ + 1, !.running = FALSE]
    ELSE [p EXCEPT !.to_parent = Append(@, msg)]
child_send(p, msg) ==
    IF p.pc = "dropped"
    THEN [p EXCEPT !.send_errors = @ + 1]
    ELSE [p EXCEPT !.to_parent = Append(@, msg)]

\* child_proc: one turn of its loop on the command received
child_proc_acknowledges_writes(p, cmd) ==
    CASE cmd.tag = "Read" ->
            child_send(p, [tag |-> "ReadResult",
                           buffer |-> EchoDevice_read(p.device, Zeros(cmd.len))
                                        \o Zeros(8 - cmd.len)])
      [] cmd.tag = "Write" ->
            child_send([p EXCEPT !.device = EchoDevice_write(@, SubSeq(cmd.data, 1, cmd.len))],
                       [tag |-> "Ok"])
      [] cmd.tag = "ReadConfig" ->
            child_send(p, [tag |-> "ReadConfigResult",
                           val |-> EchoDevice_config_register_read(p.device, cmd.idx)])
      [] cmd.tag = "WriteConfig" ->
            [p EXCEPT !.device = EchoDevice_config_register_write(
                                    @, cmd.reg_idx, cmd.offset, SubSeq(cmd.data, 1, cmd.len))]
      [] cmd.tag = "Shutdown" ->
            child_send([p EXCEPT !.running = FALSE], [tag |-> "Ok"])
child_proc(p, cmd) ==
    CASE cmd.tag = "Read" ->
            child_send(p, [tag |-> "ReadResult",
                           buffer |-> EchoDevice_read(p.device, Zeros(cmd.len))
                                        \o Zeros(8 - cmd.len)])
      [] cmd.tag = "Write" ->
            [p EXCEPT !.device = EchoDevice_write(@, SubSeq(cmd.data, 1, cmd.len))]
      [] cmd.tag = "ReadConfig" ->
            child_send(p, [tag |-> "ReadConfigResult",
                           val |-> EchoDevice_config_register_read(p.device, cmd.idx)])
      [] cmd.tag = "WriteConfig" ->
            [p EXCEPT !.device = EchoDevice_config_register_write(
                                    @, cmd.reg_idx, cmd.offset, SubSeq(cmd.data, 1, cmd.len))]
      [] cmd.tag = "Shutdown" ->
            child_send([p EXCEPT !.running = FALSE], [tag |-> "Ok"])

----------------------------------------------------------------------------
(* The device and its queue worker *)

\* Device::new: the LogicalUnit built from the disk image
Device_new(disk_len, block_size, read_only) ==
    [max_lba |-> disk_len, block_size |-> block_size, read_only |-> read_only]

\* crate::virtio::block::sys::get_seg_max
get_seg_max(queue_size) == queue_size - 2

\* Device::new: the Device's own fields; disk_image is TRUE for Some(image) and
\* worker_threads is the vector's length
Device_fields(base_features) ==
    [avail_features |-> base_features,
     disk_image |-> TRUE,
     queue_sizes |-> [i \in 1..MINIMUM_NUM_QUEUES |-> DEFAULT_QUEUE_SIZE],
     seg_max |-> get_seg_max(DEFAULT_QUEUE_SIZE),
     sense_size |-> VIRTIO_SCSI_SENSE_DEFAULT_SIZE,
     cdb_size |-> VIRTIO_SCSI_CDB_DEFAULT_SIZE,
     worker_threads |-> 0]

\* Device::build_config_space
build_config_space_all_queues(dev) ==
    [num_queues |-> Len(dev.queue_sizes),
     seg_max |-> dev.seg_max,
     max_sectors |-> MAX_SECTORS,
     cmd_per_lun |-> MAX_CMD_PER_LUN,
     event_info_size |-> VIRTIO_SCSI_EVENT_SIZE,
     sense_size |-> dev.sense_size,
     cdb_size |-> dev.cdb_size,
     max_channel |-> DEFAULT_MAX_CHANNEL,
     max_target |-> DEFAULT_MAX_TARGET,
     max_lun |-> DEFAULT_MAX_LUN]
build_config_space(dev) ==
    [num_queues |-> Len(dev.queue_sizes) - 2,
     seg_max |-> dev.seg_max,
     max_sectors |-> MAX_SECTORS,
     cmd_per_lun |-> MAX_CMD_PER_LUN,
     event_info_size |-> VIRTIO_SCSI_EVENT_SIZE,
     sense_size |-> dev.sense_size,
     cdb_size |-> dev.cdb_size,
     max_channel |-> DEFAULT_MAX_CHANNEL,
     max_target |-> DEFAULT_MAX_TARGET,
     max_lun |-> DEFAULT_MAX_LUN]

\* virtio_scsi_config.as_bytes(): the struct's bytes in the build target's order
ConfigBytes(c, le) ==
    NativeBytes(Word(c.num_queues, 4), le) \o NativeBytes(Word(c.seg_max, 4), le)
      \o NativeBytes(Word(c.max_sectors, 4), le) \o NativeBytes(Word(c.cmd_per_lun, 4), le)
      \o NativeBytes(Word(c.event_info_size, 4), le) \o NativeBytes(Word(c.sense_size, 4), le)
      \o NativeBytes(Word(c.cdb_size, 4), le) \o NativeBytes(Word(c.max_channel, 2), le)
      \o NativeBytes(Word(c.max_target, 2), le) \o NativeBytes(Word(c.max_lun, 4), le)

\* crate::virtio::copy_config(dst, 0, src, src_offset) into a dst of n bytes:
\* the bytes of src from src_offset on, as many as dst holds
copy_config(n, src, src_offset) ==
    IF src_offset >= Len(src) THEN <<>>
    ELSE SubSeq(src, src_offset + 1, Min(Len(src), src_offset + n))

\* Device::read_config: the bytes written to data
read_config_of_held_image(dev, offset, n, le) ==
    IF dev.disk_image THEN copy_config(n, ConfigBytes(build_config_space(dev), le), offset)
    ELSE copy_config(n, Zeros(36), offset)
read_config(dev, offset, n, le) ==
    copy_config(n, ConfigBytes(build_config_space(dev), le), offset)

\* Device::keep_rds: the descriptors of the disk image while the device holds it
keep_rds(dev) == IF dev.disk_image THEN {"disk_image"} ELSE {}

\* Device::activate: the disk image is taken or the call fails; the worker
\* thread is started and pushed
activate_without_take(dev) ==
    [device |-> [dev EXCEPT !.disk_image = FALSE, !.worker_threads = @ + 1],
     result |-> "ok", started |-> TRUE]
activate(dev) ==
    IF ~dev.disk_image
    THEN [device |-> dev, result |-> "err", started |-> FALSE]
    ELSE [device |-> [dev EXCEPT !.disk_image = FALSE, !.worker_threads = @ + 1],
          result |-> "ok", started |-> TRUE]

\* the queues the transport hands to activate (all MINIMUM_NUM_QUEUES of them
\* unless a mode draws fewer), and what the guest put on the control queue (0)
\* and the event queue (1): their available rings, used rings and kick events
OtherQueues == {0, 1}
DefaultQueues ==
    [given |-> 0..(MINIMUM_NUM_QUEUES - 1),
     avail |-> [q \in OtherQueues |-> <<>>],
     used |-> [q \in OtherQueues |-> <<>>],
     evt |-> [q \in OtherQueues |-> FALSE],
     cell |-> RefCell_new]

\* run_worker before it is called, while it runs, and after it returned
NoWorker == [st |-> "none", cause |-> "none", result |-> "none", kick_errors |-> FALSE]
Exited_keeps_running(w, cause, result) == [w EXCEPT !.cause = cause, !.result = result]
Exited(w, cause, result) == [w EXCEPT !.st = "exited", !.cause = cause, !.result = result]

\* run_worker up to its select: the request queue is queues[2]
run_worker_start_without_request_queue(w, has_request_queue) == [w EXCEPT !.st = "running"]
run_worker_start(w, has_request_queue) ==
    IF has_request_queue
    THEN [w EXCEPT !.st = "running"]
    ELSE Exited(w, "no_request_queue", "err")

\* run_worker's select: the future that completed, and resample's or kill's result
run_worker_select(w, ready, r) ==
    CASE ready = "queue_handler" -> Exited(w, "queue_handler", "err")
      [] ready = "resample" -> Exited(w, "resample", r)
      [] ready = "kill" -> Exited(w, "kill", r)

\* handle_queue's select arm for a finished task: continue
handle_queue_break_on_error(w, ch) ==
    IF ch.writes[1].status # GOOD \/ ch.writes[1].sense_len # 0 \/ Len(ch.out) < RespSize
    THEN Exited(w, "queue_handler", "err") ELSE w
handle_queue_after_task(w, ch) == w

\* handle_queue's select arm for a failed kick-event wait: log and continue
handle_queue_exit_on_evt_error(w) == Exited(w, "queue_handler", "err")
handle_queue_evt_error(w) == [w EXCEPT !.kick_errors = TRUE]

Remove(seq, i) == SubSeq(seq, 1, i - 1) \o SubSeq(seq, i + 1, Len(seq))
Range(seq) == {seq[i] : i \in DOMAIN seq}

\* handle_queue's drain: while let Some(chain) = queue.pop() { push(task) }
drain_first_only(av, tk) ==
    IF av = <<>> THEN [avail |-> av, tasks |-> tk]
    ELSE [avail |-> Tail(av), tasks |-> Append(tk, Head(av))]
drain_without_pop(av, tk) == [avail |-> av, tasks |-> tk \o av]
drain(av, tk) == [avail |-> <<>>, tasks |-> tk \o av]

\* the drain's queue.borrow_mut().pop(): the RefMut lives to the end of the
\* loop body, which pushes the task without polling it
drain_borrow(cell) == RefCell_drop(RefCell_borrow_mut(cell))

QueueModes == {"worker", "single", "after", "fair", "stuck", "life", "read", "queues"}
LifeModes == {"life", "read", "queues"}

\* how many chains the guest submits, and which requests they carry
ChainLimit ==
    CASE mode = "worker" -> MaxChains
      [] mode = "single" -> 1
      [] mode \in {"after", "fair", "stuck"} -> 2
      [] mode = "life" -> MaxLifeChains
      [] mode \in {"read", "queues"} -> 1
      [] OTHER -> 0
RequestPool ==
    CASE mode \in {"worker", "fair", "stuck"} -> WorkerRequests
      [] mode = "single" -> Requests
      [] mode = "after" -> IF chains = <<>> THEN FailingRequests ELSE WorkerRequests
      [] mode \in LifeModes -> LifeRequests
      [] OTHER -> {}

\* the guest makes a chain available; in mode "after" the second chain is
\* submitted once the first has been retired
Submit(req) ==
    /\ mode \in QueueModes
    /\ worker.st # "none"
    /\ 2 \in queues.given
    /\ Len(chains) < ChainLimit
    /\ IF mode = "after" /\ chains # <<>> THEN chains[1].pc = "done" ELSE TRUE
    /\ chains' = Append(chains, NewChain(req))
    /\ avail' = Append(avail, Len(chains) + 1)
    /\ UNCHANGED <<mode, proxy, queues, host_le, target, evt, tasks, terminated, used,
                   interrupts,
                   lifeVars, arg, res>>

\* the guest kicks the request queue
Kick ==
    /\ mode \in QueueModes
    /\ worker.st # "none"
    /\ ~evt
    /\ evt' = TRUE
    /\ UNCHANGED <<mode, proxy, queues, host_le, target, avail, chains, tasks, terminated, used,
                   interrupts,
                   lifeVars, arg, res>>

\* handle_queue: the kick event fired; every available chain becomes a task
HandleKick ==
    /\ mode \in QueueModes
    /\ worker.st = "running"
    /\ evt
    /\ evt' = FALSE
    /\ LET d == drain(avail, tasks) IN
        /\ avail' = d.avail
        /\ tasks' = d.tasks
        /\ chains' = [c \in DOMAIN chains |->
                        IF c \in Range(d.tasks) /\ chains[c].pc = "avail"
                        THEN [chains[c] EXCEPT !.pc = "task"] ELSE chains[c]]
        /\ terminated' = IF Len(d.tasks) > Len(tasks) THEN FALSE ELSE terminated
    /\ queues' = [queues EXCEPT !.cell = drain_borrow(@)]
    /\ UNCHANGED <<mode, proxy, host_le, target, used, interrupts, lifeVars, arg, res>>

\* handle_queue: the wait on the kick event failed
KickFail ==
    /\ mode \in LifeModes
    /\ worker.st = "running"
    /\ worker' = handle_queue_evt_error(worker)
    /\ UNCHANGED <<mode, proxy, queues, host_le, workerVars, device, kill_evt, arg, res>>

\* handle_queue: background_tasks.next() on an empty set yields None once
NextNone ==
    /\ mode \in QueueModes
    /\ worker.st = "running"
    /\ tasks = <<>>
    /\ ~terminated
    /\ terminated' = TRUE
    /\ UNCHANGED <<mode, proxy, queues, host_le, target, avail, chains, evt, tasks, used,
                   interrupts,
                   lifeVars, arg, res>>

\* the task at position i ran to its end: process_one_chain retires the chain
Retire(i, ch) ==
    \E st \in {process_one_chain(ch, [used |-> used, interrupts |-> interrupts,
                                        cell |-> queues.cell], tasks[i])} :
        /\ chains' = [chains EXCEPT ![tasks[i]] = st.ch]
        /\ queues' = [queues EXCEPT !.cell = st.q.cell]
        /\ used' = st.q.used
        /\ interrupts' = st.q.interrupts
        /\ tasks' = Remove(tasks, i)
        /\ worker' = handle_queue_after_task(worker, st.ch)

\* background_tasks.next() polls a task for the first time
PollNew_in_order(i) ==
    /\ mode \in QueueModes
    /\ worker.st = "running"
    /\ i = 1
    /\ i \in DOMAIN tasks
    /\ chains[tasks[i]].pc = "task"
    /\ \E ch \in {process_one_request(chains[tasks[i]], target, host_le)} :
        IF ch.pc = "io"
        THEN /\ chains' = [chains EXCEPT ![tasks[i]] = ch]
             /\ queues' = [queues EXCEPT !.cell = process_one_chain_suspended(@)]
             /\ UNCHANGED <<tasks, used, interrupts, worker>>
        ELSE Retire(i, ch)
    /\ target' = LogicalUnit_after_execute(target)
    /\ UNCHANGED <<mode, proxy, host_le, avail, evt, terminated, device, kill_evt,
                   arg, res>>
PollNew(i) ==
    /\ mode \in QueueModes
    /\ worker.st = "running"
    /\ i \in DOMAIN tasks
    /\ chains[tasks[i]].pc = "task"
    /\ \E ch \in {process_one_request(chains[tasks[i]], target, host_le)} :
        IF ch.pc = "io"
        THEN /\ chains' = [chains EXCEPT ![tasks[i]] = ch]
             /\ queues' = [queues EXCEPT !.cell = process_one_chain_suspended(@)]
             /\ UNCHANGED <<tasks, used, interrupts, worker>>
        ELSE Retire(i, ch)
    /\ target' = LogicalUnit_after_execute(target)
    /\ UNCHANGED <<mode, proxy, host_le, avail, evt, terminated, device, kill_evt,
                   arg, res>>

\* the backing storage completes the request of chain c, in full only when the
\* range lies within the image; in mode "stuck" the request of chain arg[1]
\* never completes
IoComplete(c, o) ==
    /\ mode \in QueueModes
    /\ worker.st = "running"
    /\ c \in DOMAIN chains
    /\ IF mode = "stuck" THEN c # arg[1] ELSE TRUE
    /\ chains[c].pc = "io"
    /\ ~chains[c].io.done
    /\ o \in IoOutcomes(chains[c].io.bytes)
    /\ o.ok => chains[c].io.offset + chains[c].io.bytes <= Len(DiskImage)
    /\ chains' = [chains EXCEPT ![c].io.done = TRUE, ![c].io.ok = o.ok, ![c].io.resid = o.resid]
    /\ UNCHANGED <<mode, proxy, queues, host_le, target, avail, evt, tasks, terminated, used,
                   interrupts,
                   lifeVars, arg, res>>

\* background_tasks.next() polls a task woken by its storage completion
PollWoken(i) ==
    /\ mode \in QueueModes
    /\ worker.st = "running"
    /\ i \in DOMAIN tasks
    /\ chains[tasks[i]].pc = "io"
    /\ chains[tasks[i]].io.done
    /\ \E ch \in {process_one_request_resume(chains[tasks[i]], host_le)} : Retire(i, ch)
    /\ target' = LogicalUnit_after_execute(target)
    /\ UNCHANGED <<mode, proxy, host_le, avail, evt, terminated, device, kill_evt,
                   arg, res>>

\* Device::activate is called; res collects the calls' results. The worker
\* thread it starts enters run_worker with the queues it was given.
Activate(has_request_queue) ==
    /\ mode \in LifeModes
    /\ Len(res) < MaxActivate
    /\ LET a == activate(device) IN
        /\ device' = a.device
        /\ res' = Append(res, a.result)
        /\ worker' = IF a.started THEN run_worker_start(worker, has_request_queue)
                      ELSE worker
        /\ queues' = IF a.started /\ ~has_request_queue
                      THEN [queues EXCEPT !.given = @ \ {2}] ELSE queues
    /\ UNCHANGED <<mode, proxy, host_le, workerVars, kill_evt, arg>>

\* the worker thread is told to stop: its kill event is signalled
KillSignal ==
    /\ mode \in LifeModes
    /\ worker.st # "none"
    /\ ~kill_evt
    /\ kill_evt' = TRUE
    /\ UNCHANGED <<mode, proxy, queues, host_le, workerVars, device, worker, arg, res>>

\* run_worker's select takes the kill arm
ObserveKill ==
    /\ mode \in LifeModes
    /\ worker.st = "running"
    /\ kill_evt
    /\ worker' = run_worker_select(worker, "kill", "ok")
    /\ UNCHANGED <<mode, proxy, queues, host_le, workerVars, device, kill_evt, arg, res>>

\* run_worker's select takes the resample arm: the resample task ended in failure
ResampleFail ==
    /\ mode \in LifeModes
    /\ worker.st = "running"
    /\ worker' = run_worker_select(worker, "resample", "err")
    /\ UNCHANGED <<mode, proxy, queues, host_le, workerVars, device, kill_evt, arg, res>>

\* the device after Device::new
InitLifeVars ==
    /\ device = Device_fields(0)
    /\ worker = NoWorker
    /\ kill_evt = FALSE

\* the device after its activation: the worker waits in run_worker's select
InitActivated ==
    /\ device = activate(Device_fields(0)).device
    /\ worker = run_worker_start(NoWorker, TRUE)
    /\ kill_evt = FALSE

InitDevice(m, les, ros) ==
    /\ mode = m
    /\ host_le \in les
    /\ target \in {Device_new(DiskLen, BlockSize, ro) : ro \in ros}
    /\ avail = <<>>
    /\ chains = <<>>
    /\ evt = FALSE
    /\ tasks = <<>>
    /\ terminated = FALSE
    /\ used = <<>>
    /\ interrupts = 0
    /\ arg = <<>>
    /\ res = <<>>
    /\ proxy = NoProxy
    /\ queues = DefaultQueues

Init == InitDevice("worker", {TRUE}, {FALSE}) /\ InitActivated

InitSingle == InitDevice("single", BOOLEAN, BOOLEAN) /\ InitActivated

InitAfter == InitDevice("after", {TRUE}, {FALSE}) /\ InitActivated

InitLife == InitDevice("life", {TRUE}, {FALSE}) /\ InitLifeVars

Next ==
    \/ \E req \in RequestPool : Submit(req)
    \/ Kick
    \/ HandleKick
    \/ NextNone
    \/ \E i \in 1..MaxChains : PollNew(i)
    \/ \E c \in 1..MaxChains, o \in IoOutcomes(MaxReqLen * BlockSize) \cup IoOutcomes(BlockSize) : IoComplete(c, o)
    \/ \E i \in 1..MaxChains : PollWoken(i)

\* the queue worker with up to MaxChains chains in flight
Spec == Init /\ [][Next]_vars

\* one chain, every request of the model
SpecSingle == InitSingle /\ [][Next]_vars

\* a chain that meets a failure, then a chain submitted after it was retired
SpecAfter == InitAfter /\ [][Next]_vars

\* the executor keeps polling what is ready, and every storage request completes
Fairness ==
    /\ WF_vars(HandleKick)
    /\ WF_vars(\E i \in 1..MaxChains : PollNew(i))
    /\ WF_vars(\E c \in 1..MaxChains, o \in IoOutcomes(BlockSize) : IoComplete(c, o))
    /\ WF_vars(\E i \in 1..MaxChains : PollWoken(i))
SpecAfterFair == SpecAfter /\ Fairness

\* the queue worker with two chains, every poll and storage completion fair
InitFair == InitDevice("fair", {TRUE}, {FALSE}) /\ InitActivated
SpecFair == InitFair /\ [][Next]_vars /\ Fairness

\* the queue worker with two chains, the storage request of one of them never
\* completing
InitStuck ==
    /\ mode = "stuck"
    /\ host_le = TRUE
    /\ target = Device_new(DiskLen, BlockSize, FALSE)
    /\ avail = <<>>
    /\ chains = <<>>
    /\ evt = FALSE
    /\ tasks = <<>>
    /\ terminated = FALSE
    /\ used = <<>>
    /\ interrupts = 0
    /\ InitActivated
    /\ arg \in {<<1>>, <<2>>}
    /\ res = <<>>
    /\ proxy = NoProxy
    /\ queues = DefaultQueues
SpecStuck == InitStuck /\ [][Next]_vars /\ Fairness

NextLife ==
    \/ Next
    \/ \E q \in BOOLEAN : Activate(q)
    \/ KickFail
    \/ KillSignal
    \/ ObserveKill
    \/ ResampleFail

\* the device from Device::new on: activation, the worker, its end
SpecLife == InitLife /\ [][NextLife]_vars

\* Device::read_config(offset, data) is called; arg holds the last call and
\* the bytes it put in data
ConfigReads == {[offset |-> 0, len |-> 36], [offset |-> 4, len |-> 4], [offset |-> 32, len |-> 8]}
ReadConfig(rd) ==
    /\ mode = "read"
    /\ arg' = <<[offset |-> rd.offset, len |-> rd.len,
                 data |-> read_config(device, rd.offset, rd.len, host_le)]>>
    /\ UNCHANGED <<mode, proxy, queues, host_le, workerVars, lifeVars, res>>

InitRead == InitDevice("read", BOOLEAN, {FALSE}) /\ InitLifeVars

NextRead ==
    \/ NextLife
    \/ \E rd \in ConfigReads : ReadConfig(rd)

\* the device's life with the guest reading the configuration space at any time
SpecRead == InitRead /\ [][NextRead]_vars

\* the guest makes a chain available on the control or the event queue
SubmitOther(q) ==
    /\ mode = "queues"
    /\ q \in queues.given \cap OtherQueues
    /\ Len(queues.avail[q]) < MaxOtherChains
    /\ queues' = [queues EXCEPT !.avail[q] = Append(@, Len(@) + 1)]
    /\ UNCHANGED <<mode, proxy, host_le, workerVars, lifeVars, arg, res>>

\* the guest kicks the control or the event queue
KickOther(q) ==
    /\ mode = "queues"
    /\ q \in queues.given \cap OtherQueues
    /\ ~queues.evt[q]
    /\ queues' = [queues EXCEPT !.evt[q] = TRUE]
    /\ UNCHANGED <<mode, proxy, host_le, workerVars, lifeVars, arg, res>>

\* a device activated with any subset of its three queues
InitQueues ==
    /\ mode = "queues"
    /\ host_le = TRUE
    /\ target = Device_new(DiskLen, BlockSize, FALSE)
    /\ avail = <<>>
    /\ chains = <<>>
    /\ evt = FALSE
    /\ tasks = <<>>
    /\ terminated = FALSE
    /\ used = <<>>
    /\ interrupts = 0
    /\ InitLifeVars
    /\ arg = <<>>
    /\ res = <<>>
    /\ proxy = NoProxy
    /\ queues \in {[DefaultQueues EXCEPT !.given = g] : g \in SUBSET (0..(MINIMUM_NUM_QUEUES - 1))}

NextQueues ==
    \/ Next
    \/ Activate(2 \in queues.given)
    \/ \E q \in OtherQueues : SubmitOther(q)
    \/ \E q \in OtherQueues : KickOther(q)

SpecQueues == InitQueues /\ [][NextQueues]_vars

----------------------------------------------------------------------------
(* The proxied device: the parent's calls, the child's loop, the socket *)

ProxyBytes == {7, 42}
BusAccessInfo0 == [offset |-> 0, address |-> 0, id |-> 0]

\* a send of the parent can be attempted: it succeeds, or its failure is counted
CanSend == Len(proxy.to_child) < SockCap \/ proxy.failures < MaxSockFailures

ProxyFrame == UNCHANGED <<host_le, mode, queues, workerVars, lifeVars, arg, res>>

\* proxy_device.write(info, &[v])
ProxyWrite(v) ==
    /\ mode = "proxy"
    /\ proxy.pc = "idle"
    /\ CanSend
    /\ proxy' = [ProxyDevice_write(proxy, BusAccessInfo0, <<v>>)
                    EXCEPT !.unproxied = EchoDevice_write(@, <<v>>)]
    /\ ProxyFrame

\* proxy_device.read(info, &mut [0]) up to the wait for the child's answer
ProxyRead ==
    /\ mode = "proxy"
    /\ proxy.pc = "idle"
    /\ CanSend
    /\ proxy' = sync_send(proxy, [tag |-> "Read", len |-> 1, info |-> BusAccessInfo0])
    /\ ProxyFrame

\* proxy_device.config_register_write(0, 0, &[v])
ProxyConfigWrite(v) ==
    /\ mode = "proxy"
    /\ proxy.pc = "idle"
    /\ CanSend
    /\ proxy' = [ProxyDevice_config_register_write(proxy, 0, 0, <<v>>)
                    EXCEPT !.unproxied = EchoDevice_config_register_write(@, 0, 0, <<v>>)]
    /\ ProxyFrame

\* proxy_device.config_register_read(0) up to the wait for the child's answer
ProxyConfigRead ==
    /\ mode = "proxy"
    /\ proxy.pc = "idle"
    /\ CanSend
    /\ proxy' = sync_send(proxy, [tag |-> "ReadConfig", idx |-> 0])
    /\ ProxyFrame

\* the ProxyDevice is dropped: sync_send(Shutdown) up to the wait
ProxyDrop ==
    /\ mode = "proxy"
    /\ proxy.pc = "idle"
    /\ CanSend
    /\ proxy' = sync_send(proxy, [tag |-> "Shutdown"])
    /\ ProxyFrame

\* sock.recv() of sync_send returns the next message of the child
ProxyRecv ==
    /\ mode = "proxy"
    /\ proxy.pc = "recv"
    /\ proxy.to_parent # <<>>
    /\ proxy' = sync_send_return([proxy EXCEPT !.to_parent = Tail(@)], <<Head(proxy.to_parent)>>)
    /\ ProxyFrame

\* sock.recv() of sync_send fails: nothing arrived within the read timeout
ProxyRecvTimeout ==
    /\ mode = "proxy"
    /\ proxy.pc = "recv"
    /\ proxy.to_parent = <<>>
    /\ proxy.failures < MaxSockFailures
    /\ proxy' = sync_send_return([proxy EXCEPT !.failures = @ + 1], <<>>)
    /\ ProxyFrame

\* child_proc receives a command and handles it
ChildStep ==
    /\ mode = "proxy"
    /\ proxy.running
    /\ proxy.to_child # <<>>
    /\ proxy' = child_proc([proxy EXCEPT !.to_child = Tail(@)], Head(proxy.to_child))
    /\ ProxyFrame

\* child_proc's sock.recv() fails once the parent's end is closed: the loop ends
ChildRecvFail ==
    /\ mode = "proxy"
    /\ proxy.running
    /\ proxy.pc = "dropped"
    /\ proxy.to_child = <<>>
    /\ proxy' = [proxy EXCEPT !.running = FALSE]
    /\ ProxyFrame

\* new_proxied_echo_device()
InitProxy ==
    /\ mode = "proxy"
    /\ host_le = TRUE
    /\ target = Device_new(DiskLen, BlockSize, FALSE)
    /\ avail = <<>>
    /\ chains = <<>>
    /\ evt = FALSE
    /\ tasks = <<>>
    /\ terminated = FALSE
    /\ used = <<>>
    /\ interrupts = 0
    /\ InitLifeVars
    /\ arg = <<>>
    /\ res = <<>>
    /\ proxy = ProxyDevice_new(EchoDevice_new)
    /\ queues = DefaultQueues

NextProxy ==
    \/ \E v \in ProxyBytes : ProxyWrite(v)
    \/ ProxyRead
    \/ \E v \in ProxyBytes : ProxyConfigWrite(v)
    \/ ProxyConfigRead
    \/ ProxyDrop
    \/ ProxyRecv
    \/ ProxyRecvTimeout
    \/ ChildStep
    \/ ChildRecvFail

SpecProxy == InitProxy /\ [][NextProxy]_vars

----------------------------------------------------------------------------
(* The pure functions on their own: Init draws an input, the action calls *)

ByteSamples == {0, 1, 2, 255}
LunInputs ==
    {<<b0, b1, b2, 0, 0, b5, 0, b7>> : b0 \in ByteSamples, b1 \in ByteSamples,
                                        b2 \in {0, 1}, b5 \in {0, 7}, b7 \in {0, 255}}

ResidSamples ==
    {Word(0, 8), Word(1, 8), Word(258, 8), <<0, 0, 0, 0, 1, 2, 3, 4>>,
     <<0, 0, 0, 0, 255, 255, 255, 255>>, <<0, 0, 0, 1, 0, 0, 0, 0>>,
     <<0, 0, 0, 1, 0, 0, 0, 5>>, <<255, 255, 255, 255, 255, 255, 255, 255>>}
\* Read(io::Error) and Write(io::Error): the variant with the wrapped error's kind
IoErrorKinds == {"Other", "UnexpectedEof", "WriteZero"}
WithIoError(e, kind) ==
    [tag |-> e.tag, resid |-> e.resid, opcode |-> e.opcode, length |-> e.length,
     sector |-> e.sector, max_lba |-> e.max_lba, io_error |-> kind]
ErrorInputs ==
    {Err(t) : t \in {"InvalidField", "Read", "ReadCommand", "ReadOnly", "Write"}}
      \cup {WithIoError(Err(t), k) : t \in {"Read", "Write"}, k \in IoErrorKinds}
      \cup {ExecuteError("Unsupported", Word(0, 8), op, 0, 0, 0) : op \in (0..255) \ Supported}
      \cup {ExecuteError("LbaOutOfRange", Word(0, 8), 0, n, l, DiskLen) :
              l \in 0..MaxReqLba, n \in 0..MaxReqLen}
      \cup {ExecuteError(t, r, 0, 0, 0, 0) : t \in {"ReadIo", "WriteIo"}, r \in ResidSamples}

InitPure(m, les, args) ==
    /\ mode = m
    /\ host_le \in les
    /\ target = Device_new(DiskLen, BlockSize, FALSE)
    /\ avail = <<>>
    /\ chains = <<>>
    /\ evt = FALSE
    /\ tasks = <<>>
    /\ terminated = FALSE
    /\ used = <<>>
    /\ interrupts = 0
    /\ InitLifeVars
    /\ arg \in {<<a>> : a \in args}
    /\ res = <<>>
    /\ proxy = NoProxy
    /\ queues = DefaultQueues

\* Device::is_lun0 is called on the drawn LUN address
CallIsLun0 ==
    /\ mode = "lun"
    /\ res = <<>>
    /\ res' = <<is_lun0(arg[1])>>
    /\ UNCHANGED <<mode, proxy, queues, host_le, workerVars, lifeVars, arg>>

\* ExecuteError::as_resp is called on the drawn error
CallAsResp ==
    /\ mode = "codec"
    /\ res = <<>>
    /\ res' = <<as_resp(arg[1], host_le)>>
    /\ UNCHANGED <<mode, proxy, queues, host_le, workerVars, lifeVars, arg>>

\* Sense::as_bytes is called on the drawn sense in the drawn format
SenseKeys == {0, MEDIUM_ERROR, ILLEGAL_REQUEST, 6, 255}
SenseCodes == {0, 12, 17, 32, 33, 36, 255}
SenseQualifiers == {0, 1, 255}
SenseInputs ==
    {[sense |-> [key |-> k, asc |-> a, ascq |-> q], fixed |-> f] :
        k \in SenseKeys, a \in SenseCodes, q \in SenseQualifiers, f \in BOOLEAN}
CallSenseAsBytes ==
    /\ mode = "sense"
    /\ res = <<>>
    /\ res' = <<Sense_as_bytes(arg[1].sense, arg[1].fixed)>>
    /\ UNCHANGED <<mode, proxy, queues, host_le, workerVars, lifeVars, arg>>

InitSense == InitPure("sense", {TRUE}, SenseInputs)
SpecSense == InitSense /\ [][CallSenseAsBytes]_vars

\* Device::new is called on the drawn arguments; build_config_space is called
\* on the Device it returned
FeatureSamples == {0, 1, 2, 32, 33}
NewInputs ==
    {[base_features |-> f, block_size |-> b, read_only |-> ro, disk_len |-> n] :
        f \in FeatureSamples, b \in 1..BlockSize, ro \in BOOLEAN, n \in 0..DiskLen}
InitConfig ==
    /\ mode = "config"
    /\ host_le = TRUE
    /\ arg \in {<<a>> : a \in NewInputs}
    /\ target = Device_new(arg[1].disk_len, arg[1].block_size, arg[1].read_only)
    /\ device = Device_fields(arg[1].base_features)
    /\ worker = NoWorker
    /\ kill_evt = FALSE
    /\ avail = <<>>
    /\ chains = <<>>
    /\ evt = FALSE
    /\ tasks = <<>>
    /\ terminated = FALSE
    /\ used = <<>>
    /\ interrupts = 0
    /\ res = <<>>
    /\ proxy = NoProxy
    /\ queues = DefaultQueues
CallBuildConfigSpace ==
    /\ mode = "config"
    /\ res = <<>>
    /\ res' = <<build_config_space(device)>>
    /\ UNCHANGED <<mode, proxy, queues, host_le, workerVars, lifeVars, arg>>
SpecConfig == InitConfig /\ [][CallBuildConfigSpace]_vars

InitLun == InitPure("lun", {TRUE}, LunInputs)
SpecLun == InitLun /\ [][CallIsLun0]_vars

InitCodec == InitPure("codec", BOOLEAN, ErrorInputs)
SpecCodec == InitCodec /\ [][CallAsResp]_vars

----------------------------------------------------------------------------
(* The PSCI node of the device tree (aarch64/src/fdt.rs) *)

\* hypervisor::PsciVersion, PSCI_0_2 and PSCI_1_0; the derived ordering compares
\* major first, then minor
PsciVersion_new(major, minor) == [major |-> major, minor |-> minor]
PSCI_0_2 == PsciVersion_new(0, 2)
PSCI_1_0 == PsciVersion_new(1, 0)
PsciVersion_ge(a, b) == a.major > b.major \/ (a.major = b.major /\ a.minor >= b.minor)

\* psci_compatible: the supported versions not above the given one, newest
\* first; "arm,psci" when there is none
psci_compatible_strictly_older(version) ==
    LET supported == <<[v |-> PSCI_1_0, c |-> "arm,psci-1.0"],
                       [v |-> PSCI_0_2, c |-> "arm,psci-0.2"]>>
        Kept(e) == PsciVersion_ge(version, e.v) /\ version # e.v
        filtered == SelectSeq(supported, Kept)
        compatible == [i \in DOMAIN filtered |-> filtered[i].c]
    IN  IF compatible = <<>> THEN <<"arm,psci">> ELSE compatible
psci_compatible(version) ==
    LET supported == <<[v |-> PSCI_1_0, c |-> "arm,psci-1.0"],
                       [v |-> PSCI_0_2, c |-> "arm,psci-0.2"]>>
        Kept(e) == PsciVersion_ge(version, e.v)
        filtered == SelectSeq(supported, Kept)
        compatible == [i \in DOMAIN filtered |-> filtered[i].c]
    IN  IF compatible = <<>> THEN <<"arm,psci">> ELSE compatible

PsciVersions == {PsciVersion_new(j, n) : j \in 0..MaxPsciMajor, n \in 0..MaxPsciMinor}
InitPsci == InitPure("psci", {TRUE}, PsciVersions)

\* psci_compatible is called on the drawn version
CallPsciCompatible ==
    /\ mode = "psci"
    /\ res = <<>>
    /\ res' = <<psci_compatible(arg[1])>>
    /\ UNCHANGED <<mode, proxy, queues, host_le, workerVars, lifeVars, arg>>

SpecPsci == InitPsci /\ [][CallPsciCompatible]_vars

----------------------------------------------------------------------------
(* Properties *)

Has(log, step) == \E i \in DOMAIN log : log[i] = step
NoDup(seq) == \A i, j \in DOMAIN seq : i # j => seq[i] # seq[j]
UsedIds == [i \in DOMAIN used |-> used[i][1]]
EndsUsedThenInterrupt(log) ==
    /\ Len(log) >= 2
    /\ log[Len(log) - 1] = "add_used"
    /\ log[Len(log)] = "interrupt"
    /\ Cardinality({i \in DOMAIN log : log[i] \in {"add_used", "interrupt"}}) = 2

\* the LUN address is one the addressing rule rejects
Rejected(lun) == ~(lun[1] = 1 /\ lun[2] = 0)

\* the sense triple read off wire bytes by the fixed-format layout
FixedTriple(w) == [key |-> w[12 + 3], asc |-> w[12 + 13], ascq |-> w[12 + 14]]

\* C1 (as amended): a chain whose response region can hold a whole response
\* gets exactly one response, written whole and before add_used, whatever the
\* outcome; a chain whose region is too small gets no whole response: one or two
\* write attempts are made and only the leading bytes of the first one fit.
C1_OneResponseWhenRoom ==
    \A c \in DOMAIN chains :
        LET ch == chains[c] IN
        ch.pc = "done" =>
            /\ Has(ch.log, "write_resp")
            /\ ch.log[Len(ch.log) - 2] = "write_resp"
            /\ IF RespCap(ch.req) = RespSize
               THEN /\ Len(ch.writes) = 1
                    /\ ch.out = RespBytes(ch.writes[1], host_le)
               ELSE /\ Len(ch.writes) \in {1, 2}
                    /\ Len(ch.out) < RespSize
                    /\ ch.out = SubSeq(RespBytes(ch.writes[1], host_le), 1, RespCap(ch.req))

\* C1 as stated: every retired chain got exactly one response, for every outcome
C1_ExactlyOneResponseWrite ==
    \A c \in DOMAIN chains :
        chains[c].pc = "done" =>
            /\ Len(chains[c].writes) = 1
            /\ Len(chains[c].out) = RespSize

\* C1's case: a header-read failure answered by one whole response
C1_Witness ==
    \E c \in DOMAIN chains :
        /\ chains[c].pc = "done"
        /\ ~chains[c].req.hdr
        /\ Len(chains[c].writes) = 1
        /\ Len(chains[c].out) = RespSize

\* C2: every chain is held by exactly one of the available ring, one task or
\* the used ring; no chain is in the used ring twice; there is one interrupt
\* per add_used; and once nothing is available or in flight, all N chains
\* submitted were marked used and N interrupts were triggered.
C2_EachChainUsedOnce ==
    LET all == avail \o tasks \o UsedIds IN
    /\ NoDup(all)
    /\ Range(all) = DOMAIN chains
    /\ interrupts = Len(used)
    /\ \A c \in DOMAIN chains : chains[c].pc = "done" <=> c \in Range(UsedIds)
    /\ (avail = <<>> /\ tasks = <<>>) =>
            (Len(used) = Len(chains) /\ interrupts = Len(chains))

\* C2's case: MaxChains chains were all in flight before the first completion
\* (the chain submitted last was retired first) and all have been retired
C2_Witness ==
    /\ Len(chains) = MaxChains
    /\ Len(used) = MaxChains
    /\ interrupts = MaxChains
    /\ used[1][1] = MaxChains
    /\ tasks = <<>>

StepRank(step) ==
    CASE step = "read_hdr" -> 1 [] step = "is_lun0" -> 2 [] step = "decode" -> 3
      [] step = "execute" -> 4 [] step \in {"execute_ok", "execute_err"} -> 5
      [] step = "write_resp" -> 6 [] step = "add_used" -> 7 [] step = "interrupt" -> 8

\* C3: the steps of one chain happen in the order read header, decode, execute,
\* write response, add_used, interrupt; the interrupt comes only after add_used,
\* and add_used only after a response write attempt.
C3_StepsInOrder ==
    \A c \in DOMAIN chains :
        LET log == chains[c].log IN
        /\ \A i \in 1..(Len(log) - 1) :
              \/ StepRank(log[i]) < StepRank(log[i + 1])
              \/ (log[i] = "write_resp" /\ log[i + 1] = "write_resp")
        /\ \A i \in DOMAIN log :
              /\ log[i] = "interrupt" => (i > 1 /\ log[i - 1] = "add_used")
              /\ log[i] = "add_used" => (i > 1 /\ log[i - 1] = "write_resp")
              /\ log[i] \in {"execute_ok", "execute_err"} => (i > 1 /\ log[i - 1] = "execute")
              /\ log[i] = "execute" => (i > 1 /\ log[i - 1] = "decode")
              /\ log[i] = "decode" => (i > 2 /\ log[i - 2] = "read_hdr")
        /\ chains[c].pc = "done" => EndsUsedThenInterrupt(log)

\* C3's case: a chain that went through every step, storage I/O included
C3_Witness ==
    \E c \in DOMAIN chains :
        /\ chains[c].io.done
        /\ chains[c].log = <<"read_hdr", "is_lun0", "decode", "execute", "execute_ok",
                             "write_resp", "add_used", "interrupt">>

\* C4: is_lun0 accepts a LUN address exactly when byte 0 is 1 and byte 1 is 0,
\* whatever bytes 2..7 hold; [1,0,0,0,0,0,0,0] is accepted, [1,1,0,0,0,0,0,0]
\* and [0,0,0,0,0,0,0,0] are rejected.
C4_IsLun0Rule ==
    res # <<>> =>
        /\ res[1] <=> (arg[1][1] = 1 /\ arg[1][2] = 0)
        /\ arg[1] = <<1, 0, 0, 0, 0, 0, 0, 0>> => res[1]
        /\ arg[1] \in {<<1, 1, 0, 0, 0, 0, 0, 0>>, <<0, 0, 0, 0, 0, 0, 0, 0>>} => ~res[1]

\* C4's case: an address with bus id 0 and a nonzero later byte was accepted
C4_Witness == res = <<TRUE>> /\ arg[1][1] = 1 /\ arg[1][2] = 0 /\ arg[1][8] = 255

\* C5: a request with a readable header and a rejected LUN address is never
\* decoded or executed, issues no storage request and writes no payload; its
\* response is BAD_TARGET with status, sense_len and resid zero, and the chain
\* is marked used once, with an interrupt.
C5_BadTargetNoExecution ==
    \A c \in DOMAIN chains :
        LET ch == chains[c] IN
        (ch.req.hdr /\ Rejected(ch.req.lun) /\ ch.pc \notin {"avail", "task"}) =>
            /\ ~Has(ch.log, "decode")
            /\ ~Has(ch.log, "execute")
            /\ ch.io = NoIo
            /\ ch.dlen = 0
            /\ ch.writes # <<>>
            /\ ch.writes[1] = [sense_len |-> 0, resid |-> <<0, 0, 0, 0>>,
                               status_qualifier |-> 0, status |-> 0,
                               response |-> VIRTIO_SCSI_S_BAD_TARGET,
                               sense |-> Zeros(VIRTIO_SCSI_SENSE_DEFAULT_SIZE)]
            /\ RespCap(ch.req) = RespSize =>
                    (ch.out = Zeros(11) \o <<VIRTIO_SCSI_S_BAD_TARGET>>
                                \o Zeros(VIRTIO_SCSI_SENSE_DEFAULT_SIZE))
            /\ ch.pc = "done"
            /\ Cardinality({i \in DOMAIN used : used[i][1] = c}) = 1
            /\ EndsUsedThenInterrupt(ch.log)

\* C5's case: a retired chain addressed to bus 1 whose response was written whole
C5_Witness ==
    \E c \in DOMAIN chains :
        /\ chains[c].pc = "done"
        /\ chains[c].req.hdr
        /\ chains[c].req.lun = <<1, 1, 0, 0, 0, 0, 0, 0>>
        /\ chains[c].req.cdb.op = READ_10
        /\ Len(chains[c].out) = RespSize

\* C6 as stated: the response to ReadOnly is CHECK_CONDITION with a sense
\* triple of its own, not {ILLEGAL_REQUEST, 0x21, 0x00} of LbaOutOfRange
C6_ReadOnlyOwnSense ==
    (mode = "codec" /\ res # <<>> /\ arg[1].tag = "ReadOnly") =>
        /\ res[1].status = CHECK_CONDITION
        /\ FixedTriple(RespBytes(res[1], host_le))
              # [key |-> ILLEGAL_REQUEST, asc |-> 33, ascq |-> 0]

\* C7 (as amended): for every variant but ReadIo and WriteIo, the sense bytes
\* of as_resp read by the fixed-format layout (byte 0 = 0x70, byte 7 = 10) give
\* the triple the variant maps to; for ReadIo and WriteIo as_resp encodes no
\* sense at all (sense_len 0, every sense byte 0).
C7_SenseRoundTrip ==
    res # <<>> =>
        LET w == RespBytes(res[1], host_le) IN
        IF arg[1].tag \in {"ReadIo", "WriteIo"}
        THEN /\ res[1].sense_len = 0
             /\ SubSeq(w, 13, RespSize) = Zeros(VIRTIO_SCSI_SENSE_DEFAULT_SIZE)
        ELSE /\ w[12 + 1] = 112
             /\ w[12 + 8] = 10
             /\ FixedTriple(w) = SenseOf(arg[1])

\* C7 as stated: the round trip recovers a triple for every variant
C7_RoundTripEveryVariant ==
    res # <<>> =>
        LET w == RespBytes(res[1], host_le) IN
        /\ w[12 + 1] = 112
        /\ w[12 + 8] = 10
        /\ FixedTriple(w) = SenseOf(arg[1])

\* C7's case: LbaOutOfRange was encoded and its sense bytes are on the wire
C7_Witness ==
    /\ res # <<>>
    /\ arg[1].tag = "LbaOutOfRange"
    /\ RespBytes(res[1], host_le)[12 + 13] = 33

\* the response execute_request builds on success, field by field
OkResponse ==
    [sense_len |-> 0, resid |-> <<0, 0, 0, 0>>, status_qualifier |-> 0, status |-> 0,
     response |-> 0, sense |-> Zeros(VIRTIO_SCSI_SENSE_DEFAULT_SIZE)]

\* C8: a command addressed to LUN 0 that decodes and executes successfully is
\* answered with status GOOD, response OK, sense_len, resid and status_qualifier
\* zero and an all-zero sense array.
C8_SuccessResponse ==
    \A c \in DOMAIN chains :
        LET ch == chains[c] IN
        Has(ch.log, "execute_ok") =>
            /\ ch.writes # <<>>
            /\ ch.writes[1] = OkResponse
            /\ ch.out = SubSeq(Zeros(RespSize), 1, RespCap(ch.req))

\* C8's case: a READ(10) whose storage read completed and was answered whole
C8_Witness ==
    \E c \in DOMAIN chains :
        /\ chains[c].pc = "done"
        /\ chains[c].req.cdb.op = READ_10
        /\ chains[c].io.ok
        /\ Has(chains[c].log, "execute_ok")
        /\ Len(chains[c].out) = RespSize

ProtocolFaults ==
    {"InvalidField", "Unsupported", "ReadOnly", "LbaOutOfRange", "Read", "ReadCommand", "Write"}

\* C9: for every protocol-level fault as_resp yields status CHECK_CONDITION,
\* sense_len 18, response OK, resid 0 and fixed-format sense bytes (0x70 first,
\* 10 in byte 7, zero outside bytes 0, 2, 7, 12, 13); no response of as_resp
\* starts its sense with 0x72, the descriptor format.
C9_ProtocolFaultResponse ==
    res # <<>> =>
        LET r == res[1]
            w == RespBytes(r, host_le)
        IN  /\ w[12 + 1] # 114
            /\ arg[1].tag \in ProtocolFaults =>
                  /\ r.status = CHECK_CONDITION
                  /\ r.sense_len = 18
                  /\ r.response = VIRTIO_SCSI_S_OK
                  /\ r.resid = <<0, 0, 0, 0>>
                  /\ w[12 + 1] = 112
                  /\ w[12 + 8] = 10
                  /\ \A i \in 1..VIRTIO_SCSI_SENSE_DEFAULT_SIZE :
                        i \notin {1, 3, 8, 13, 14} => w[12 + i] = 0
                  /\ w[11] = CHECK_CONDITION
                  /\ w[12] = VIRTIO_SCSI_S_OK

\* C9's case: Unsupported(0xff) was encoded with an 18-byte sense
C9_Witness ==
    /\ res # <<>>
    /\ arg[1].tag = "Unsupported"
    /\ arg[1].opcode = 255
    /\ res[1].sense_len = 18

\* C10: for ReadIo and WriteIo the response has status GOOD, response OK,
\* sense_len 0 and an all-zero sense array, and the four resid bytes on the
\* wire are the residual byte count, most significant byte first.
C10_IoErrorResid ==
    (res # <<>> /\ arg[1].tag \in {"ReadIo", "WriteIo"}) =>
        LET r == res[1]
            w == RespBytes(r, host_le)
        IN  /\ r.status = GOOD
            /\ r.status # CHECK_CONDITION
            /\ r.response = VIRTIO_SCSI_S_OK
            /\ r.sense_len = 0
            /\ r.sense = Zeros(VIRTIO_SCSI_SENSE_DEFAULT_SIZE)
            /\ SubSeq(arg[1].resid, 1, 4) = <<0, 0, 0, 0>> =>
                    SubSeq(w, 5, 8) = SubSeq(arg[1].resid, 5, 8)

\* C10's case: a read that left 0x01020304 bytes, encoded on a little-endian host
C10_Witness ==
    /\ res # <<>>
    /\ host_le
    /\ arg[1].tag = "ReadIo"
    /\ arg[1].resid = <<0, 0, 0, 0, 1, 2, 3, 4>>

\* C11: the sense triple of an error response is a fixed function of the
\* ExecuteError variant alone, whatever the wrapped I/O error, the opcode or
\* the LBA fields: Read and ReadCommand give {MEDIUM_ERROR 0x03, 0x11, 0x00},
\* Write {MEDIUM_ERROR, 0x0c, 0x00}, InvalidField {ILLEGAL_REQUEST 0x05, 0x24,
\* 0x00}, Unsupported {ILLEGAL_REQUEST, 0x20, 0x00} and LbaOutOfRange
\* {ILLEGAL_REQUEST, 0x21, 0x00}.
C11_SenseTripleByVariant ==
    (mode = "codec" /\ res # <<>>) =>
        LET t == FixedTriple(RespBytes(res[1], host_le))
            tag == arg[1].tag
        IN  /\ tag \in {"Read", "ReadCommand"} => t = [key |-> 3, asc |-> 17, ascq |-> 0]
            /\ tag = "Write" => t = [key |-> 3, asc |-> 12, ascq |-> 0]
            /\ tag = "InvalidField" => t = [key |-> 5, asc |-> 36, ascq |-> 0]
            /\ tag = "Unsupported" => t = [key |-> 5, asc |-> 32, ascq |-> 0]
            /\ tag = "LbaOutOfRange" => t = [key |-> 5, asc |-> 33, ascq |-> 0]
            /\ MEDIUM_ERROR = 3 /\ ILLEGAL_REQUEST = 5

C11_Witness ==
    /\ mode = "codec" /\ res # <<>>
    /\ arg[1].tag = "Unsupported" /\ arg[1].opcode = 77
    /\ FixedTriple(RespBytes(res[1], host_le)) = [key |-> 5, asc |-> 32, ascq |-> 0]

\* C12: Sense::as_bytes, for every {key, asc, ascq}: the fixed format gives
\* length 18 with byte 0 = 0x70, byte 2 = key, byte 7 = 10, byte 12 = asc,
\* byte 13 = ascq and every other byte zero; the descriptor format gives
\* length 8 with byte 0 = 0x72, byte 1 = key, byte 2 = asc, byte 3 = ascq and
\* every other byte zero. (Byte k of the code is data[k + 1] here.)
C12_SenseLayouts ==
    (mode = "sense" /\ res # <<>>) =>
        LET s == arg[1].sense
            d == res[1].data
        IN  /\ Len(d) = VIRTIO_SCSI_SENSE_DEFAULT_SIZE
            /\ IF arg[1].fixed
               THEN /\ res[1].len = 18
                    /\ d[0 + 1] = 112 /\ d[2 + 1] = s.key /\ d[7 + 1] = 10
                    /\ d[12 + 1] = s.asc /\ d[13 + 1] = s.ascq
                    /\ \A k \in (0..(Len(d) - 1)) \ {0, 2, 7, 12, 13} : d[k + 1] = 0
               ELSE /\ res[1].len = 8
                    /\ d[0 + 1] = 114 /\ d[1 + 1] = s.key
                    /\ d[2 + 1] = s.asc /\ d[3 + 1] = s.ascq
                    /\ \A k \in (0..(Len(d) - 1)) \ {0, 1, 2, 3} : d[k + 1] = 0

C12_Witness ==
    /\ mode = "sense" /\ res # <<>>
    /\ ~arg[1].fixed
    /\ arg[1].sense = [key |-> 6, asc |-> 255, ascq |-> 1]
    /\ res[1].len = 8 /\ res[1].data[1] = 114 /\ res[1].data[3] = 255

\* a request for LUN 0 whose CDB does not decode, and the sense of its error
DecodeError(req) ==
    /\ req.hdr
    /\ ~Rejected(req.lun)
    /\ (req.cdb.op \notin {0, 3, 8, 18, 37, 40, 42, 160} \/ req.cdb.form # "ok")
DecodeSense(cdb) ==
    CASE cdb.op \notin {0, 3, 8, 18, 37, 40, 42, 160} -> [key |-> 5, asc |-> 32, ascq |-> 0]
      [] cdb.form = "invalid" -> [key |-> 5, asc |-> 36, ascq |-> 0]
      [] cdb.form = "truncated" -> [key |-> 3, asc |-> 17, ascq |-> 0]

\* C13: a request for LUN 0 whose CDB does not decode (an opcode outside
\* {0x00, 0x03, 0x08, 0x12, 0x25, 0x28, 0x2a, 0xa0}: Unsupported; a malformed
\* CDB: InvalidField or ReadCommand) is answered with CHECK_CONDITION and the
\* error's sense, nothing is executed, no storage I/O is issued, and the
\* chain is still marked used and interrupted.
C13_DecodeErrorAnswered ==
    \A c \in DOMAIN chains :
        LET ch == chains[c] IN
        (mode = "single" /\ DecodeError(ch.req) /\ ch.pc \notin {"avail", "task"}) =>
            /\ ch.pc = "done"
            /\ Has(ch.log, "decode")
            /\ \A i \in DOMAIN ch.log : ch.log[i] \notin {"execute", "execute_ok", "execute_err"}
            /\ ch.io = NoIo /\ ch.dlen = 0
            /\ Len(ch.writes) = 1
            /\ ch.writes[1].status = CHECK_CONDITION
            /\ ch.writes[1].response = VIRTIO_SCSI_S_OK
            /\ ch.writes[1].sense_len = 18
            /\ FixedTriple(RespBytes(ch.writes[1], host_le)) = DecodeSense(ch.req.cdb)
            /\ ch.out = SubSeq(RespBytes(ch.writes[1], host_le), 1, RespCap(ch.req))
            /\ EndsUsedThenInterrupt(ch.log)
            /\ used = <<<<c, Len(ch.out)>>>>
            /\ interrupts = 1

C13_Witness ==
    /\ mode = "single"
    /\ Len(chains) = 1
    /\ chains[1].req = Request(TRUE, Lun(1, 0, 0), Cdb(READ_10, "invalid", 0, 0),
                               RespSize + DataRoom)
    /\ chains[1].pc = "done"
    /\ chains[1].out = RespBytes(as_resp(Err("InvalidField"), host_le), host_le)
    /\ used = <<<<1, RespSize>>>>

\* C14: when the request header cannot be read, the LUN is not checked and
\* nothing is decoded or executed; the error response (CHECK_CONDITION, sense
\* {MEDIUM_ERROR, 0x11, 0x00}) is written whole when the response region can
\* hold it; when that write fails too, nothing more is written, the length
\* reported with the chain is the number of bytes that were written, and the
\* worker goes on.
C14_UnreadableHeader ==
    \A c \in DOMAIN chains :
        LET ch == chains[c] IN
        (mode = "single" /\ ~ch.req.hdr /\ ch.pc \notin {"avail", "task"}) =>
            /\ ch.pc = "done"
            /\ \A i \in DOMAIN ch.log :
                  ch.log[i] \notin {"is_lun0", "decode", "execute", "execute_ok", "execute_err"}
            /\ ch.io = NoIo /\ ch.dlen = 0
            /\ Len(ch.writes) = 1
            /\ ch.writes[1].status = CHECK_CONDITION
            /\ ch.writes[1].sense_len = 18
            /\ FixedTriple(RespBytes(ch.writes[1], host_le)) = [key |-> 3, asc |-> 17, ascq |-> 0]
            /\ RespCap(ch.req) = RespSize => ch.out = RespBytes(ch.writes[1], host_le)
            /\ RespCap(ch.req) < RespSize =>
                  ch.out = SubSeq(RespBytes(ch.writes[1], host_le), 1, RespCap(ch.req))
            /\ used = <<<<c, Len(ch.out)>>>>
            /\ interrupts = 1
            /\ worker.st = "running"

C14_Witness ==
    /\ mode = "single"
    /\ Len(chains) = 1
    /\ ~chains[1].req.hdr
    /\ chains[1].req.wsize = ShortWritable
    /\ chains[1].pc = "done"
    /\ Len(chains[1].out) = ShortWritable
    /\ used = <<<<1, ShortWritable>>>>
    /\ worker.st = "running"

\* C15: no failure of one request ends the worker loop: whether the first
\* chain met a decode error, a validation error, a storage I/O error, an
\* unreadable header or a failed response write, the worker keeps running and a
\* chain that is submitted and kicked after it is still popped, processed and
\* marked used.
C15_LoopSurvivesRequestFailure ==
    /\ [](mode = "after" => worker.st = "running")
    /\ \A c \in 1..2 :
          (c \in DOMAIN chains /\ c \in Range(avail) /\ evt)
              ~> (c \in DOMAIN chains /\ chains[c].pc = "done" /\ c \in Range(UsedIds))

C15_Witness ==
    /\ mode = "after"
    /\ Len(chains) = 2
    /\ chains[1].req.cdb.op = 255
    /\ chains[1].writes[1].status = CHECK_CONDITION
    /\ chains[2].req.cdb.op = READ_10
    /\ chains[2].pc = "done"
    /\ UsedIds = <<1, 2>>
    /\ worker.st = "running"

\* the chains a task of background_tasks holds: dispatched, not yet retired
InFlight == Range(tasks)

C17_KickFailureEndsWorker ==
    worker.kick_errors => (worker.st = "exited" /\ worker.result = "err")

\* C18 (as amended): once the worker has observed the kill event it has
\* exited, whatever commands are in flight; after the exit no chain is marked
\* used, no interrupt is triggered and no chain changes, so the chains in
\* flight at that moment are never marked used; a dispatched command leaves
\* background_tasks only by being marked used, and the only ends of the worker
\* that abandon commands in flight are the kill event and the failure of the
\* interrupt-resample task.
C18_KillAbandonsInFlight ==
    /\ [](worker.cause = "kill" => worker.st = "exited")
    /\ [](worker.cause # "none" => \A c \in InFlight : c \notin Range(UsedIds))
    /\ [](worker.cause # "none" /\ InFlight # {} => worker.cause \in {"kill", "resample"})
    /\ [][worker.cause # "none" =>
            /\ used' = used /\ interrupts' = interrupts /\ tasks' = tasks
            /\ \A c \in DOMAIN chains : chains'[c] = chains[c]]_vars
    /\ [][\A c \in InFlight : c \in Range(tasks') \/ c \in {used'[i][1] : i \in DOMAIN used'}]_vars

C18_Witness ==
    /\ mode = "life"
    /\ worker.st = "exited" /\ worker.cause = "kill"
    /\ \E c \in InFlight : chains[c].pc = "io" /\ chains[c].io.done
    /\ \E c \in InFlight : chains[c].pc = "task"
    /\ used = <<>> /\ interrupts = 0

\* C18 as stated: as above, and the kill event is the only path that cancels
\* a dispatched command
C18_OnlyKillCancels ==
    /\ [](worker.cause # "none" => \A c \in InFlight : c \notin Range(UsedIds))
    /\ [](worker.st = "exited" /\ InFlight # {} => worker.cause = "kill")
    /\ [][worker.cause # "none" =>
            /\ used' = used /\ interrupts' = interrupts /\ tasks' = tasks
            /\ \A c \in DOMAIN chains : chains'[c] = chains[c]]_vars

\* C19: after any sequence of activate calls at most one queue worker has
\* been started: the first call succeeds and moves the disk image out of the
\* Device (disk_image is None, keep_rds is empty), every later call returns
\* an error and changes neither worker_threads nor the worker.
C19_ActivateOnce ==
    /\ [](mode = "life" =>
            /\ device.worker_threads <= 1
            /\ res = <<>> =>
                  /\ device.disk_image /\ keep_rds(device) # {}
                  /\ device.worker_threads = 0 /\ worker.st = "none"
            /\ res # <<>> =>
                  /\ res[1] = "ok"
                  /\ ~device.disk_image /\ keep_rds(device) = {}
                  /\ device.worker_threads = 1 /\ worker.st # "none"
                  /\ \A i \in 2..Len(res) : res[i] = "err")
    /\ [][(mode = "life" /\ res # <<>> /\ res' # res) =>
            (device' = device /\ worker' = worker)]_vars
    /\ [][worker.st = "exited" => worker'.st = "exited"]_vars

C19_Witness ==
    /\ mode = "life"
    /\ res = <<"ok", "err">>
    /\ device.worker_threads = 1
    /\ ~device.disk_image
    /\ worker.st = "running"

\* C20: the configuration space reports num_queues = (number of queues) - 2,
\* which is 1 for the 3 default queues, max_sectors = 0xffff, cmd_per_lun =
\* 128, max_channel = 0, max_target = 255, max_lun = 16383, and sense_size and
\* cdb_size at the virtio defaults (96 and 32), whatever Device::new was given.
C20_ConfigSpace ==
    (mode = "config" /\ res # <<>>) =>
        LET c == res[1] IN
        /\ Len(device.queue_sizes) = 3
        /\ c.num_queues = Len(device.queue_sizes) - 2
        /\ c.num_queues = 1
        /\ c.max_sectors = 65535
        /\ c.cmd_per_lun = 128
        /\ c.max_channel = 0
        /\ c.max_target = 255
        /\ c.max_lun = 16383
        /\ c.sense_size = VIRTIO_SCSI_SENSE_DEFAULT_SIZE /\ c.sense_size = 96
        /\ c.cdb_size = VIRTIO_SCSI_CDB_DEFAULT_SIZE /\ c.cdb_size = 32

C20_Witness ==
    /\ mode = "config" /\ res # <<>>
    /\ arg[1].base_features = 33 /\ arg[1].read_only
    /\ res[1].num_queues = 1 /\ res[1].max_lun = 16383

\* the configuration bytes of the device as Device::new built it
ConfigAtNew == ConfigBytes(build_config_space(Device_fields(0)), host_le)

\* C21: read_config can be called in every device state (before activation,
\* after it, with commands in flight) and gives the same configuration bytes
\* in all of them; read_config changes no device state, and no step of
\* activate or of request processing changes a configuration field.
C21_ConfigStable ==
    /\ [](arg # <<>> =>
            arg[1].data = SubSeq(ConfigAtNew, arg[1].offset + 1,
                                 Min(Len(ConfigAtNew), arg[1].offset + arg[1].len)))
    /\ [](Len(ConfigAtNew) = 36)
    /\ [][arg' # arg => UNCHANGED <<workerVars, lifeVars, res>>]_vars
    /\ [][build_config_space(device') = build_config_space(device)]_vars

C21_Witness ==
    /\ mode = "read"
    /\ arg # <<>> /\ arg[1].offset = 0
    /\ arg[1].data = ConfigAtNew
    /\ ~device.disk_image
    /\ \E c \in InFlight : chains[c].pc = "io"
    /\ SubSeq(arg[1].data, 1, 4) = NativeBytes(<<0, 0, 0, 1>>, host_le)

\* C22: with a fair worker, no kill event and every storage request completing,
\* every chain that is available when a kick is delivered is popped in that
\* wake-up (the drain leaves the available ring empty, one task per chain) and
\* is eventually marked used; a kick is cleared only by a drain, whatever
\* tasks are in flight, so no kick is lost.
C22_KickedChainsGetUsed ==
    /\ [][(evt /\ ~evt') =>
            /\ avail' = <<>>
            /\ \A c \in Range(avail) : c \in Range(tasks') /\ chains'[c].pc = "task"
            /\ Len(tasks') = Len(tasks) + Len(avail)]_vars
    /\ \A c \in 1..2 :
          (c \in Range(avail) /\ evt) ~> (c \in Range(UsedIds))

C22_Witness ==
    /\ mode = "fair"
    /\ UsedIds = <<2, 1>>
    /\ chains[1].req.cdb.op = READ_10
    /\ evt /\ avail = <<>> /\ tasks = <<>>

\* C23: completions are independent across chains: with the storage request of
\* one chain pending for ever, every other chain, in flight with it or
\* submitted after it, that is available at a kick is still processed and
\* marked used; a step that retires one chain changes no other chain; and the
\* used ring may list chains in another order than they were popped.
C23_IndependentCompletions ==
    /\ [][\A c, d \in DOMAIN chains :
            (c # d /\ chains[c].pc # "done" /\ chains'[c].pc = "done") =>
                chains'[d] = chains[d]]_vars
    /\ [](mode = "stuck" => arg[1] \notin Range(UsedIds) \/ chains[arg[1]].io.kind = "none")
    /\ \A c \in 1..2 :
          (c \in Range(avail) /\ evt /\ (c # arg[1] \/ chains[c].req.cdb.op # READ_10))
              ~> (c \in Range(UsedIds))

C23_Witness ==
    /\ mode = "stuck"
    /\ arg = <<1>>
    /\ Len(chains) = 2
    /\ chains[1].pc = "io" /\ ~chains[1].io.done
    /\ chains[2].req.cdb.op = READ_10
    /\ tasks = <<1>>
    /\ UsedIds = <<2>>

Decodes(req, op) == req.hdr /\ ~Rejected(req.lun) /\ req.cdb.form = "ok" /\ req.cdb.op = op

\* C25: every Read10, and every Write10 on a writable unit, whose starting LBA
\* plus transfer length exceeds max_lba yields LbaOutOfRange whose length,
\* sector and max_lba are the request's transfer length, its starting LBA and
\* the unit's max_lba; no storage I/O is issued and the response is
\* CHECK_CONDITION with sense {ILLEGAL_REQUEST 0x05, 0x21, 0x00}.
C25_LbaOutOfRange ==
    \A c \in DOMAIN chains :
        LET ch == chains[c]
            cdb == ch.req.cdb
        IN  (/\ mode = "single"
             /\ Decodes(ch.req, READ_10) \/ (Decodes(ch.req, WRITE_10) /\ ~target.read_only)
             /\ cdb.lba + cdb.len > target.max_lba
             /\ ch.pc \notin {"avail", "task"}) =>
                LET r == Command_execute([op |-> cdb.op, lba |-> cdb.lba, len |-> cdb.len], target)
                IN  /\ r.k = "err"
                    /\ r.err.tag = "LbaOutOfRange"
                    /\ r.err.length = cdb.len
                    /\ r.err.sector = cdb.lba
                    /\ r.err.max_lba = DiskLen
                    /\ ch.pc = "done"
                    /\ Has(ch.log, "execute_err")
                    /\ ch.io = NoIo /\ ch.dlen = 0 /\ ch.disk_data = <<>>
                    /\ ch.writes[1].status = 2
                    /\ ch.writes[1].sense_len = 18
                    /\ FixedTriple(RespBytes(ch.writes[1], host_le)) = [key |-> 5, asc |-> 33, ascq |-> 0]
                    /\ ch.out = SubSeq(RespBytes(ch.writes[1], host_le), 1, RespCap(ch.req))

\* C25's case: a Write10 of one block at the first LBA past a writable unit's
\* last one was answered whole
C25_Witness ==
    /\ mode = "single"
    /\ ~target.read_only
    /\ Len(chains) = 1
    /\ chains[1].req = Request(TRUE, Lun(1, 0, 0), Cdb(WRITE_10, "ok", DiskLen, 1),
                               RespSize + DataRoom)
    /\ chains[1].pc = "done"
    /\ Len(chains[1].out) = RespSize
    /\ chains[1].out[11] = 2

\* C26: a Write10 on a read-only unit yields ReadOnly for every LBA and length,
\* out-of-range ones included (the read-only check precedes the range check),
\* and never issues a write to storage.
C26_ReadOnlyFirst ==
    \A c \in DOMAIN chains :
        LET ch == chains[c]
            cdb == ch.req.cdb
        IN  (/\ mode = "single"
             /\ Decodes(ch.req, WRITE_10)
             /\ target.read_only
             /\ ch.pc \notin {"avail", "task"}) =>
                /\ Command_execute([op |-> cdb.op, lba |-> cdb.lba, len |-> cdb.len], target).err
                        = Err("ReadOnly")
                /\ ch.pc = "done"
                /\ Has(ch.log, "execute_err")
                /\ ch.io.kind # "write" /\ ch.io = NoIo
                /\ ch.writes[1] = as_resp(Err("ReadOnly"), host_le)

\* C26's case: a Write10 past the end of a read-only unit was answered
C26_Witness ==
    /\ mode = "single"
    /\ target.read_only
    /\ Len(chains) = 1
    /\ Decodes(chains[1].req, WRITE_10)
    /\ chains[1].req.cdb.lba + chains[1].req.cdb.len > DiskLen
    /\ chains[1].pc = "done"
    /\ Has(chains[1].log, "execute_err")

\* C27: a Read10 of n blocks at LBA s that passes the range check and whose
\* storage read completes in full is answered with status GOOD and response OK,
\* and exactly n * block_size payload bytes are written, equal to the bytes of
\* the backing store from s * block_size on.
C27_ReadPayload ==
    \A c \in DOMAIN chains :
        LET ch == chains[c]
            cdb == ch.req.cdb
        IN  (/\ mode = "single"
             /\ Decodes(ch.req, READ_10)
             /\ cdb.lba + cdb.len <= target.max_lba
             /\ ch.pc \in {"responded", "done"}
             /\ ch.io.done /\ ch.io.ok) =>
                /\ ch.writes[1].status = 0
                /\ ch.writes[1].response = 0
                /\ ch.writes[1] = OkResponse
                /\ ch.dlen = cdb.len * BlockSize
                /\ Len(ch.disk_data) = ch.dlen
                /\ \A i \in 1..ch.dlen : ch.disk_data[i] = DiskImage[cdb.lba * BlockSize + i]
                /\ ch.pc = "done" => used = <<<<c, Len(ch.out) + cdb.len * BlockSize>>>>

\* C27's case: two blocks read from LBA 0 (the whole image when BlockSize is 2
\* and DiskLen 4)
C27_Witness ==
    /\ mode = "single"
    /\ Len(chains) = 1
    /\ chains[1].req.cdb = Cdb(READ_10, "ok", 0, MaxReqLen)
    /\ chains[1].pc = "done"
    /\ chains[1].io.ok
    /\ Len(chains[1].disk_data) = MaxReqLen * BlockSize
    /\ chains[1].out = RespBytes(OkResponse, host_le)

\* no socket operation of the parent has failed: the child kept up
Responsive == proxy.failures = 0

\* C28: with a responsive child, a read through the ProxyDevice returns what the
\* wrapped device returns after all earlier writes were applied to it in order:
\* whatever sequence of writes and reads was issued, the bytes handed back are
\* those of the same device called directly (for the echo device the byte
\* written last, [42] after a write of [42]).
C28_ProxiedRead ==
    (mode = "proxy" /\ Responsive /\ proxy.pc = "idle" /\ proxy.ret.kind = "read") =>
        /\ proxy.ret.data = EchoDevice_read(proxy.unproxied, <<0>>)
        /\ proxy.device.data = proxy.unproxied.data
        /\ proxy.to_child = <<>>

\* C28's case: [42] was written, then read back as [42]
C28_Witness ==
    /\ mode = "proxy"
    /\ Responsive
    /\ proxy.pc = "idle"
    /\ proxy.ret = [kind |-> "read", val |-> 0, data |-> <<42>>]
    /\ proxy.unproxied.data = 42

\* C29: with a responsive child, config_register_read through the ProxyDevice
\* returns the wrapped device's register value after all earlier config writes
\* were applied in order (42 after a config write of [42]).
C29_ProxiedConfig ==
    (mode = "proxy" /\ Responsive /\ proxy.pc = "idle" /\ proxy.ret.kind = "config") =>
        /\ proxy.ret.val = EchoDevice_config_register_read(proxy.unproxied, 0)
        /\ proxy.device.config = proxy.unproxied.config
        /\ proxy.to_child = <<>>

\* C29's case: [42] was written to the config register, then 42 read from it
C29_Witness ==
    /\ mode = "proxy"
    /\ Responsive
    /\ proxy.pc = "idle"
    /\ proxy.ret = [kind |-> "config", data |-> <<>>, val |-> 42]
    /\ proxy.unproxied.config = 42

\* the PSCI version a compatible string stands for ("arm,psci" is the v0.1
\* binding)
VersionOf(c) ==
    CASE c = "arm,psci-1.0" -> [major |-> 1, minor |-> 0]
      [] c = "arm,psci-0.2" -> [major |-> 0, minor |-> 2]
      [] c = "arm,psci" -> [major |-> 0, minor |-> 1]

\* C30: for every PSCI version v, psci_compatible returns <<"arm,psci-1.0",
\* "arm,psci-0.2">> in that order when v >= 1.0, <<"arm,psci-0.2">> when
\* 0.2 <= v < 1.0 and <<"arm,psci">> when v < 0.2; the result is never empty
\* and, for every PSCI version (0.1 and up), lists no version newer than v.
C30_PsciCompatible ==
    (mode = "psci" /\ res # <<>>) =>
        LET v == arg[1]
            r == res[1]
        IN  /\ v.major >= 1 => r = <<"arm,psci-1.0", "arm,psci-0.2">>
            /\ (v.major = 0 /\ v.minor >= 2) => r = <<"arm,psci-0.2">>
            /\ (v.major = 0 /\ v.minor < 2) => r = <<"arm,psci">>
            /\ r # <<>>
            /\ (v.major > 0 \/ v.minor >= 1) =>
                    \A i \in DOMAIN r :
                        \/ VersionOf(r[i]).major < v.major
                        \/ VersionOf(r[i]).major = v.major /\ VersionOf(r[i]).minor <= v.minor

\* C30's case: version 1.0 itself got both strings
C30_Witness ==
    /\ mode = "psci"
    /\ arg = <<[major |-> 1, minor |-> 0]>>
    /\ res = <<<<"arm,psci-1.0", "arm,psci-0.2">>>>

\* C31: the worker processes only the request queue (index 2). Chains on the
\* control queue (0) and the event queue (1) are never popped and never marked
\* used, whatever is kicked; a worker activated without queue 2 has returned an
\* error with no chain popped, nothing used and no interrupt.
C31_OnlyRequestQueue ==
    /\ [](\A q \in OtherQueues : queues.used[q] = <<>>)
    /\ [][\A q \in OtherQueues :
            SubSeq(queues'.avail[q], 1, Len(queues.avail[q])) = queues.avail[q]]_vars
    /\ []((mode = "queues" /\ worker.st # "none" /\ 2 \notin queues.given) =>
            /\ worker.st = "exited" /\ worker.result = "err"
            /\ worker.cause = "no_request_queue"
            /\ tasks = <<>> /\ used = <<>> /\ interrupts = 0
            /\ \A c \in DOMAIN chains : chains[c].pc = "avail")

\* C31's case: chains wait on the kicked control and event queues while a chain
\* of the request queue has been used
C31_Witness ==
    /\ mode = "queues"
    /\ worker.st = "running"
    /\ \A q \in OtherQueues : queues.avail[q] # <<>> /\ queues.evt[q]
    /\ Len(used) = 1
    /\ avail = <<>>

\* C32: for every chain and every outcome the length given to add_used is the
\* number of bytes written to the response header region plus the number
\* written to the payload region; it is size_of(virtio_scsi_cmd_resp) plus the
\* payload length on success and never exceeds the chain's writable size.
C32_UsedLength ==
    \A i \in DOMAIN used :
        LET c == used[i][1]
            ch == chains[c]
        IN  /\ used[i][2] = Len(ch.out) + ch.dlen
            /\ Len(ch.out) <= RespCap(ch.req)
            /\ ch.dlen <= DataCap(ch.req)
            /\ used[i][2] <= ch.req.wsize
            /\ Has(ch.log, "execute_ok") /\ Len(ch.out) = RespSize =>
                    used[i][2] = 108 + (IF ch.io.kind = "read"
                                        THEN ch.req.cdb.len * BlockSize
                                        ELSE PayloadLen(ch.req.cdb.op))

\* C32's case: a read of MaxReqLen blocks was used with the response and the
\* whole payload counted
C32_Witness ==
    /\ mode = "single"
    /\ Len(used) = 1
    /\ chains[1].req.cdb = Cdb(READ_10, "ok", 0, MaxReqLen)
    /\ chains[1].io.ok
    /\ used[1][2] = RespSize + MaxReqLen * BlockSize

\* C33: even when writing the response fails because the chain's writable
\* region is too small, the chain is marked used exactly once and one interrupt
\* is triggered, in the step that attempted the write: no chain that was
\* answered stays outside the used ring.
C33_UsedDespiteWriteFailure ==
    \A c \in DOMAIN chains :
        LET ch == chains[c] IN
        (mode = "single" /\ ch.writes # <<>> /\ Len(ch.out) < RespSize) =>
            /\ ch.pc = "done"
            /\ Cardinality({i \in DOMAIN used : used[i][1] = c}) = 1
            /\ Len(used) = 1
            /\ interrupts = 1
            /\ EndsUsedThenInterrupt(ch.log)
            /\ tasks = <<>>

\* C33's case: an Inquiry whose chain has no writable byte: both write attempts
\* failed and the chain was used with length 0
C33_Witness ==
    /\ mode = "single"
    /\ Len(chains) = 1
    /\ chains[1].req = Request(TRUE, Lun(1, 0, 0), Cdb(INQUIRY, "ok", 0, 0), 0)
    /\ Len(chains[1].writes) = 2
    /\ used = <<<<1, 0>>>>
    /\ interrupts = 1

\* C34: the mutable borrow of the shared request queue is exclusive in every
\* interleaving of kicks, drains, suspensions and completions: at every await
\* point no RefMut of the queue is alive, so neither the drain loop's borrow
\* nor a completing task's borrow meets another, and borrow_mut never panics.
C34_ExclusiveBorrow ==
    /\ ~queues.cell.borrowed
    /\ ~queues.cell.panicked

\* C34's case: a task is suspended on its storage request while an earlier
\* drain's other chain has been retired and a later kick drained a third one
C34_Witness ==
    /\ mode = "worker"
    /\ Len(chains) = 3
    /\ \E c \in DOMAIN chains : chains[c].pc = "io" /\ ~chains[c].io.done
    /\ \E c \in DOMAIN chains : chains[c].pc = "done"
    /\ \E c \in DOMAIN chains : chains[c].pc = "task"
    /\ ~queues.cell.borrowed

\* C36: the resid field of an I/O-error response is the residual byte count
\* when the count fits in 32 bits and 0xFFFFFFFF when it does not, on either
\* byte order of the host; a count of 2^32 or more never shows as its low 32
\* bits.
C36_ResidSaturates ==
    (mode = "codec" /\ res # <<>> /\ arg[1].tag \in {"ReadIo", "WriteIo"}) =>
        LET count == arg[1].resid
            wire == SubSeq(RespBytes(res[1], host_le), 5, 8)
            fits == \A i \in 1..4 : count[i] = 0
        IN  /\ fits => wire = SubSeq(count, 5, 8)
            /\ ~fits => wire = <<255, 255, 255, 255>>

\* C36's case: a residual of 2^32 + 5 bytes was encoded as 0xFFFFFFFF
C36_Witness ==
    /\ mode = "codec"
    /\ arg[1].tag = "WriteIo"
    /\ arg[1].resid = <<0, 0, 0, 1, 0, 0, 0, 5>>
    /\ res # <<>>
    /\ res[1].resid \in {<<255, 255, 255, 255>>}

\* C35: on a unit built by Device::new, every Read6, Read10 and Write10 that
\* passes the LBA range check (starting LBA plus transfer length does not
\* exceed max_lba) accesses only bytes inside the backing store: (starting LBA
\* + transfer length) * block_size is at most the store's length in bytes, and
\* the storage request issued ends inside the image.
C35_InsideBackingStore ==
    \A c \in DOMAIN chains :
        LET ch == chains[c]
            cdb == ch.req.cdb
        IN  (/\ mode = "single"
             /\ \E op \in ReadWriteOps : Decodes(ch.req, op)
             /\ cdb.lba + cdb.len <= target.max_lba
             /\ Has(ch.log, "execute")) =>
                /\ (cdb.lba + cdb.len) * target.block_size <= Len(DiskImage)
                /\ ch.io.offset + ch.io.bytes <= Len(DiskImage)

\* the reply child_proc sends for a command
ReplyTag(tag) ==
    CASE tag = "Read" -> "ReadResult"
      [] tag = "ReadConfig" -> "ReadConfigResult"
      [] tag = "Shutdown" -> "Ok"

\* C37: every result sync_send returns is the child's reply to the command sent
\* in that same call, never the reply to an earlier command, for any sequence
\* of operations and any timing of the child, late replies included. A reply
\* to this call's command is of the kind this command is answered with, so
\* each message sync_send takes off the socket is of that kind.
C37_ReplyPairsWithCommand ==
    [][(/\ mode = "proxy"
        /\ proxy.pc = "recv"
        /\ proxy'.pc # "recv"
        /\ Len(proxy'.to_parent) < Len(proxy.to_parent)) =>
            Head(proxy.to_parent).tag = ReplyTag(proxy.cmd.tag)]_vars

\* the commands child_proc answers with a result
ReplyingTags == {"Read", "ReadConfig", "Shutdown"}

\* the commands among cmds that will be answered
Awaited(cmds) == {i \in DOMAIN cmds : cmds[i].tag \in ReplyingTags}

\* C38: the child handles the commands in the order received, sends exactly one
\* reply for each Read (ReadResult), ReadConfig (ReadConfigResult) and Shutdown
\* (Ok) and none for Write and WriteConfig (a reply sent after the parent closed
\* its end is one failed send); the parent waits for a reply exactly
\* for the commands that produce one; so, while no socket operation timed out,
\* the replies in flight and still to come never exceed the awaited commands
\* (one while sync_send waits, none otherwise).
C38_RepliesMatchAwaited ==
    /\ [](mode = "proxy" =>
            /\ (proxy.pc = "recv" => proxy.cmd.tag \in ReplyingTags)
            /\ (Responsive =>
                    Len(proxy.to_parent) + Cardinality(Awaited(proxy.to_child))
                        <= IF proxy.pc = "recv" THEN 1 ELSE 0))
    /\ [][(mode = "proxy" /\ Len(proxy'.to_child) < Len(proxy.to_child)) =>
            LET cmd == Head(proxy.to_child)
            IN  /\ proxy'.to_child = Tail(proxy.to_child)
                /\ IF cmd.tag \in ReplyingTags
                   THEN \/ /\ Len(proxy'.to_parent) = Len(proxy.to_parent) + 1
                            /\ SubSeq(proxy'.to_parent, 1, Len(proxy.to_parent)) = proxy.to_parent
                            /\ proxy'.to_parent[Len(proxy'.to_parent)].tag = ReplyTag(cmd.tag)
                            /\ proxy'.send_errors = proxy.send_errors
                         \/ /\ proxy.pc = "dropped"
                            /\ proxy'.to_parent = proxy.to_parent
                            /\ proxy'.send_errors = proxy.send_errors + 1
                   ELSE /\ proxy'.to_parent = proxy.to_parent
                        /\ proxy'.send_errors = proxy.send_errors]_vars

\* C38's case: a write was handled without a reply, the read after it is
\* answered by the one ReadResult in flight while the parent waits
C38_Witness ==
    /\ mode = "proxy"
    /\ Responsive
    /\ proxy.pc = "recv"
    /\ proxy.cmd.tag = "Read"
    /\ proxy.device.data = 42
    /\ proxy.to_child = <<>>
    /\ Len(proxy.to_parent) = 1
    /\ proxy.to_parent[1].tag = "ReadResult"

\* the Shutdown commands among cmds
Shutdowns(cmds) == {i \in DOMAIN cmds : cmds[i].tag = "Shutdown"}

\* C39: dropping a ProxyDevice sends exactly one Shutdown command (one send,
\* which fails only on a full socket) and waits for its reply; on receiving
\* Shutdown the child replies Ok, handles no further command and its loop
\* ends; the child's loop also ends when its receive fails, whereas a failed
\* send in the child leaves it running.
C39_Shutdown ==
    /\ [](mode = "proxy" =>
            /\ Cardinality(Shutdowns(proxy.to_child)) <= 1
            /\ (proxy.pc = "dropped" => proxy.cmd.tag = "Shutdown"))
    /\ [][mode = "proxy" =>
            \* the drop: one Shutdown sent, then the wait
            /\ (proxy'.cmd.tag = "Shutdown" /\ proxy.pc = "idle" /\ proxy'.pc # "idle") =>
                    /\ proxy'.pc = "recv"
                    /\ \/ proxy'.to_child = Append(proxy.to_child, [tag |-> "Shutdown"])
                       \/ /\ Len(proxy.to_child) = SockCap
                          /\ proxy'.to_child = proxy.to_child
                          /\ proxy'.failures = proxy.failures + 1
            \* nothing is sent after the drop
            /\ (proxy.pc = "dropped" \/ proxy.cmd.tag = "Shutdown") =>
                    /\ proxy'.cmd = proxy.cmd
                    /\ Len(proxy'.to_child) <= Len(proxy.to_child)
            \* the child on Shutdown
            /\ (Len(proxy'.to_child) < Len(proxy.to_child)
                    /\ Head(proxy.to_child).tag = "Shutdown") =>
                    /\ ~proxy'.running
                    /\ IF proxy.pc = "dropped"
                       THEN proxy'.send_errors = proxy.send_errors + 1
                       ELSE proxy'.to_parent = Append(proxy.to_parent, [tag |-> "Ok"])
            \* a child whose loop ended handles nothing
            /\ ~proxy.running =>
                    /\ ~proxy'.running
                    /\ Len(proxy'.to_child) >= Len(proxy.to_child)
                    /\ proxy'.device = proxy.device
                    /\ proxy'.send_errors = proxy.send_errors
            \* a failed receive ends the loop
            /\ (proxy.running /\ proxy.pc = "dropped" /\ proxy.to_child = <<>>) =>
                    ~proxy'.running
            \* a failed send does not
            /\ (proxy'.send_errors > proxy.send_errors
                    /\ Head(proxy.to_child).tag # "Shutdown") =>
                    proxy'.running]_vars

\* C39's case: after the drop the child failed to send the reply to an earlier
\* command and still runs, with the Shutdown next in its socket
C39_Witness ==
    /\ mode = "proxy"
    /\ proxy.pc = "dropped"
    /\ proxy.send_errors = 1
    /\ proxy.running
    /\ Len(proxy.to_child) = 1
    /\ proxy.to_child[1].tag = "Shutdown"

\* C40: when sync_send brings no reply (receive error or timeout) or a reply
\* of the wrong kind, config_register_read returns 0 and read leaves the
\* caller's buffer as it was; the call returns like any other (its result is
\* a value or a buffer, never an error) and the proxy is left as it was for
\* the commands that follow.
C40_FailedReply ==
    [][(/\ mode = "proxy"
        /\ proxy.pc = "recv"
        /\ proxy.cmd.tag \in {"Read", "ReadConfig"}
        /\ \/ Len(proxy'.to_parent) < Len(proxy.to_parent)
           \/ proxy'.failures > proxy.failures) =>
            LET got == IF Len(proxy'.to_parent) < Len(proxy.to_parent)
                       THEN <<Head(proxy.to_parent)>> ELSE <<>>
                failed == IF got = <<>> THEN TRUE ELSE got[1].tag # ReplyTag(proxy.cmd.tag)
            IN  failed =>
                    /\ proxy.cmd.tag = "ReadConfig" =>
                            proxy'.ret = [kind |-> "config", data |-> <<>>, val |-> 0]
                    /\ proxy.cmd.tag = "Read" =>
                            proxy'.ret = [kind |-> "read", val |-> 0,
                                          data |-> CallerBuffer(proxy.cmd.len)]
                    /\ proxy'.pc = "idle"
                    /\ proxy'.to_child = proxy.to_child
                    /\ proxy'.running = proxy.running
                    /\ proxy'.device = proxy.device]_vars

\* C40's case: a read returned with the caller's buffer untouched after a
\* receive that failed or brought another call's reply, and the proxy is idle
C40_Witness ==
    /\ mode = "proxy"
    /\ proxy.pc = "idle"
    /\ proxy.failures = 1
    /\ proxy.running
    /\ proxy.ret = [kind |-> "read", val |-> 0, data |-> CallerBuffer(1)]
    /\ Len(proxy.to_child) < SockCap

====
